---------------------------- MODULE Spec2Model ----------------------------
(***************************************************************************)
(* Model of the media module's wysiwyg instance handling                   *)
(* (Drupal.media.WysiwygInstance and Drupal.media.utils).                  *)
(*                                                                         *)
(* Strings are sequences of atoms.  An atom is a chunk of characters that  *)
(* the code never looks inside of; every character the code inspects       *)
(* ('[', ']', '<', '>', ' ', '"', '\', the '&quot;' escape) is an atom of  *)
(* its own.  The empty string is the empty sequence.                       *)
(***************************************************************************)
EXTENDS Integers, Sequences, FiniteSets, TLC

(***************************************************************************)
(* Bounds of the model.                                                    *)
(***************************************************************************)
MaxHashLen == 7

VARIABLES
  token,            \* this.token: the media token, '' when not known
  settings,         \* this.settings: [null, o], o the properties when not null
  key,              \* this.key: the indexable key, '' when not known
  placeholderBase,  \* this.placeholderBase: '' (<<>>) or the html of one node
  placeholder,      \* this.$placeholder: null (<<>>) or the element
  heap,             \* the nested objects: cells "default", "own" and "tmp"
  fidTypeMap,       \* Drupal.settings.media.fidTypeMap
  attributeFields,  \* Drupal.settings.media.attributeFields
  doLinkText,       \* Drupal.settings.media.doLinkText
  phase,            \* "none" before the constructor is called, then "live", or
                    \* "failed" when it threw
  call,             \* the last call made: its name, what it threw and returned
  before,           \* the instance as that call found it, and the call before it
  hstr,             \* the string being hashed, as char codes
  hres,             \* hashCode(hstr) as the loop computes it
  panels,           \* media.js: the tab panels of the page, each the sequence
                    \* of its children
  drawers           \* Drupal.behaviors.mediaDrawers: the drawer displays and
                    \* the drawer items of the context

vars == <<token, settings, key, placeholderBase, placeholder, heap, fidTypeMap,
          attributeFields, doLinkText, phase, call, before, hstr, hres, panels,
          drawers>>

(***************************************************************************)
(* Drupal.media.utils.hashCode.  JavaScript's << works on 32 bit signed    *)
(* integers, - and + on doubles (exact in this range), and &= converts to  *)
(* a 32 bit integer again.  Values beyond 32 bits are kept as two 16 bit   *)
(* limbs.                                                                  *)
(***************************************************************************)
Two16 == 2^16
Two15 == 2^15

\* hash << 5 : the low 32 bits of hash * 32, read as a signed integer.
ShiftLeft5(hash) ==
  LET lo32 == (hash % Two16) * 32
      xlo  == lo32 % Two16
      xhi  == ((hash \div Two16) * 32 + (lo32 \div Two16)) % Two16
  IN  [hi |-> IF xhi >= Two15 THEN xhi - Two16 ELSE xhi, lo |-> xlo]

\* x & 0x7fffffff for x = hi * 2^16 + lo (any sign): bits 0..30 of x.
And7fffffff(hi, lo) ==
  LET carry == lo \div Two16
  IN  (((hi + carry) % Two15) * Two16) + (lo % Two16)

\* A round that adds where the code subtracts: hash = ((hash << 5) + hash) + char.
HashStepAdding(hash, char) ==
  LET s == ShiftLeft5(hash)
  IN  And7fffffff(s.hi + (hash \div Two16), s.lo + (hash % Two16) + char)

\* One round of the loop body: hash = ((hash << 5) - hash) + char; hash &= 0x7fffffff.
HashStep(hash, char) ==
  LET s == ShiftLeft5(hash)
  IN  And7fffffff(s.hi - (hash \div Two16), s.lo - (hash % Two16) + char)

\* The rounds of the for loop for the indexes i..j.  (hash is compared so that
\* each round's value is computed in its round.)
RECURSIVE HashRounds(_, _, _, _)
HashRounds(str, i, j, hash) ==
  IF hash < 0 \/ i > j THEN hash
  ELSE HashRounds(str, i + 1, j, HashStep(hash, str[i]))

\* The for loop from index i on.  (The rounds are run in blocks so that the
\* evaluation of a long string stays shallow.)
RECURSIVE HashLoop(_, _, _)
HashLoop(str, i, hash) ==
  IF hash < 0 \/ i > Len(str) THEN hash
  ELSE LET j == IF i + 15 < Len(str) THEN i + 15 ELSE Len(str)
       IN  HashLoop(str, j + 1, HashRounds(str, i, j, hash))

\* hashCode(str) for a string given as its sequence of char codes.
hashCode(str) ==
  IF Len(str) = 0 THEN 0 ELSE HashLoop(str, 1, 0)

(***************************************************************************)
(* JavaScript values.  A value is a record [t, s]: its type and its text   *)
(* (a sequence of atoms).  A number is held as its decimal text, an object *)
(* as the name of the heap cell that holds its properties.                 *)
(***************************************************************************)
Str(s)   == [t |-> "str", s |-> s]
Num(a)   == [t |-> "num", s |-> <<a>>]
Obj(ref) == [t |-> "obj", s |-> <<ref>>]
Undef    == [t |-> "undef", s |-> <<>>]
Null     == [t |-> "null", s |-> <<>>]
False    == [t |-> "bool", s |-> <<>>]
True     == [t |-> "bool", s |-> <<"true">>]

\* "var v = x; ... v ...": F of the value x, which is computed once.
Let(x, F(_)) == F(x)

\* if (v) ...
Truthy(v) ==
  CASE v.t = "obj"  -> TRUE
    [] v.t = "num"  -> v.s # <<"0">>
    [] v.t = "str"  -> v.s # <<>>
    [] v.t = "bool" -> v.s # <<>>
    [] OTHER        -> FALSE

(***************************************************************************)
(* JavaScript objects: the properties in insertion order, as a sequence of *)
(* <<name, value>> pairs.                                                  *)
(***************************************************************************)
Has(o, k) == \E i \in 1..Len(o) : o[i][1] = k

\* o[k]
Get(o, k) ==
  IF Has(o, k) THEN o[CHOOSE i \in 1..Len(o) : o[i][1] = k][2] ELSE Undef

\* o[k] = v : an existing property keeps its place, a new one goes last.
PutAt(o, i, k, v) ==
  SubSeq(o, 1, i - 1) \o <<<<k, v>>>> \o SubSeq(o, i + 1, Len(o))

Put(o, k, v) ==
  IF Has(o, k) THEN PutAt(o, CHOOSE j \in 1..Len(o) : o[j][1] = k, k, v)
  ELSE Append(o, <<k, v>>)

\* delete o[k]
Delete(o, k) == SelectSeq(o, LAMBDA p : p[1] # k)


(***************************************************************************)
(* Strings.                                                                *)
(***************************************************************************)
\* Index of the first occurrence of the two-atom pattern <<a, b>> in s, or 0.
IndexOf2(s, a, b) ==
  LET hits == {i \in 1..(Len(s) - 1) : s[i] = a /\ s[i + 1] = b}
  IN  IF hits = {} THEN 0 ELSE CHOOSE i \in hits : \A j \in hits : i <= j

\* s.replace(ab, '') with a string pattern: only the first occurrence goes.
RemoveFirst2(s, a, b) ==
  LET i == IndexOf2(s, a, b)
  IN  IF i = 0 THEN s ELSE SubSeq(s, 1, i - 1) \o SubSeq(s, i + 2, Len(s))

\* s.replace(a, r) with a string pattern a of one atom: the first occurrence.
ReplaceFirst(s, a, r) ==
  LET hits == {i \in 1..Len(s) : s[i] = a}
  IN  IF hits = {} THEN s
      ELSE LET i == CHOOSE j \in hits : \A k \in hits : j <= k
           IN  SubSeq(s, 1, i - 1) \o r \o SubSeq(s, i + 1, Len(s))

\* s.replace(/a/g, r): every occurrence of the atom a.
RECURSIVE ReplaceAll(_, _, _)
ReplaceAll(s, a, r) ==
  IF s = <<>> THEN <<>>
  ELSE (IF Head(s) = a THEN r ELSE <<Head(s)>>) \o ReplaceAll(Tail(s), a, r)

\* s.split(' '): the items between the spaces (empty items included); the
\* empty string splits into one empty item.
RECURSIVE Split(_)
Split(s) ==
  LET i == IF \E j \in 1..Len(s) : s[j] = " "
           THEN CHOOSE j \in 1..Len(s) : s[j] = " " /\ \A k \in 1..(j - 1) : s[k] # " "
           ELSE 0
  IN  IF i = 0 THEN <<s>>
      ELSE <<SubSeq(s, 1, i - 1)>> \o Split(SubSeq(s, i + 1, Len(s)))

\* items.join(' ')
RECURSIVE Join(_)
Join(items) ==
  IF items = <<>> THEN <<>>
  ELSE IF Len(items) = 1 THEN items[1]
  ELSE items[1] \o <<" ">> \o Join(Tail(items))


(***************************************************************************)
(* The heap.  Objects nested in other objects are held in named cells so   *)
(* that two references to one object can be told from two equal objects:   *)
(* "default" is the default of the schema's attributes property, "own" the *)
(* attributes object of the instance settings, "tmp" the attributes object *)
(* of the object being prepared for the token.                             *)
(***************************************************************************)
Cell(hp, v) == hp[v.s[1]]

(***************************************************************************)
(* JSON.stringify and JSON.parse, on the objects the code gives them: an   *)
(* object of strings, numbers, booleans and at most one nested object of   *)
(* such values.                                                            *)
(***************************************************************************)
NumAtoms == {"0", "1", "2", "42"}

\* The characters of a string literal: quote and backslash are escaped.
RECURSIVE Escape(_)
Escape(s) ==
  IF s = <<>> THEN <<>>
  ELSE (IF Head(s) \in {"\"", "\\"} THEN <<"\\", Head(s)>> ELSE <<Head(s)>>)
       \o Escape(Tail(s))

StrLit(s) == <<"\"">> \o Escape(s) \o <<"\"">>

ScalarJSON(v) ==
  CASE v.t = "str"  -> StrLit(v.s)
    [] v.t = "num"  -> v.s
    [] v.t = "bool" -> IF v.s = <<>> THEN <<"false">> ELSE <<"true">>
    [] OTHER        -> <<"null">>

\* The members of an object of scalars, each preceded by a comma.  A property
\* whose value is undefined is left out.
RECURSIVE FlatMembersJSON(_)
FlatMembersJSON(o) ==
  IF o = <<>> THEN <<>>
  ELSE (IF Head(o)[2].t = "undef" THEN <<>>
        ELSE <<",">> \o StrLit(<<Head(o)[1]>>) \o <<":">> \o ScalarJSON(Head(o)[2]))
       \o FlatMembersJSON(Tail(o))

Braces(members) ==
  <<"{">> \o (IF members = <<>> THEN <<>> ELSE Tail(members)) \o <<"}">>

RECURSIVE MembersJSON(_, _)
MembersJSON(o, hp) ==
  IF o = <<>> THEN <<>>
  ELSE LET k == Head(o)[1]
           v == Head(o)[2]
       IN  (IF v.t = "undef" THEN <<>>
            ELSE <<",">> \o StrLit(<<k>>) \o <<":">> \o
                 (IF v.t = "obj" THEN Braces(FlatMembersJSON(Cell(hp, v)))
                  ELSE ScalarJSON(v)))
           \o MembersJSON(Tail(o), hp)

\* JSON.stringify(o)
Stringify(o, hp) == Braces(MembersJSON(o, hp))

ParseFail == [ok |-> FALSE, pos |-> 0, v |-> Undef, o |-> <<>>]

\* A string literal's characters from position i, just after its opening quote.
RECURSIVE ParseChars(_, _, _)
ParseChars(s, i, acc) ==
  IF i > Len(s) THEN ParseFail
  ELSE IF s[i] = "\"" THEN [ok |-> TRUE, pos |-> i + 1, v |-> Str(acc), o |-> <<>>]
  ELSE IF s[i] = "\\"
       THEN IF i + 1 <= Len(s) /\ s[i + 1] \in {"\"", "\\"}
            THEN ParseChars(s, i + 2, Append(acc, s[i + 1]))
            ELSE ParseFail
  ELSE ParseChars(s, i + 1, Append(acc, s[i]))

\* A string, number, true, false or null at position i.
ParseScalar(s, i) ==
  IF i > Len(s) THEN ParseFail
  ELSE CASE s[i] = "\""      -> ParseChars(s, i + 1, <<>>)
         [] s[i] \in NumAtoms -> [ok |-> TRUE, pos |-> i + 1, v |-> Num(s[i]), o |-> <<>>]
         [] s[i] = "true"     -> [ok |-> TRUE, pos |-> i + 1, v |-> True, o |-> <<>>]
         [] s[i] = "false"    -> [ok |-> TRUE, pos |-> i + 1, v |-> False, o |-> <<>>]
         [] s[i] = "null"     -> [ok |-> TRUE, pos |-> i + 1, v |-> Null, o |-> <<>>]
         [] OTHER             -> ParseFail

\* The members of an object of scalars from position i, where a member or
\* (first) the closing brace is due; acc holds the members read so far.
RECURSIVE ParseFlatMembers(_, _, _, _)
ParseFlatMembers(s, i, acc, first) ==
  IF i > Len(s) THEN ParseFail
  ELSE IF first /\ s[i] = "}" THEN [ok |-> TRUE, pos |-> i + 1, v |-> Undef, o |-> acc]
  ELSE IF s[i] # "\"" THEN ParseFail
  ELSE Let(ParseChars(s, i + 1, <<>>), LAMBDA k :
         IF ~k.ok \/ Len(k.v.s) # 1 \/ k.pos > Len(s) \/ s[k.pos] # ":" THEN ParseFail
         ELSE Let(ParseScalar(s, k.pos + 1), LAMBDA v :
                IF ~v.ok \/ v.pos > Len(s) THEN ParseFail
                ELSE Let(Put(acc, k.v.s[1], v.v), LAMBDA o :
                       IF s[v.pos] = "}"
                       THEN [ok |-> TRUE, pos |-> v.pos + 1, v |-> Undef, o |-> o]
                       ELSE IF s[v.pos] = ","
                            THEN ParseFlatMembers(s, v.pos + 1, o, FALSE)
                            ELSE ParseFail)))

\* The value of a member of the outer object at position i: an object of
\* scalars, which goes to the heap cell "own" (nested holds it), or a scalar.
ParseValue(s, i, nested) ==
  IF s[i] = "{"
  THEN Let(ParseFlatMembers(s, i + 1, <<>>, TRUE), LAMBDA v :
         [ok |-> v.ok, pos |-> v.pos, v |-> Obj("own"), nested |-> v.o])
  ELSE Let(ParseScalar(s, i), LAMBDA v :
         [ok |-> v.ok, pos |-> v.pos, v |-> v.v, nested |-> nested])

\* The members of the outer object.
RECURSIVE ParseMembers(_, _, _, _, _)
ParseMembers(s, i, acc, nested, first) ==
  IF i > Len(s) THEN ParseFail
  ELSE IF first /\ s[i] = "}"
       THEN [ok |-> TRUE, pos |-> i + 1, v |-> Undef, o |-> acc, nested |-> nested]
  ELSE IF s[i] # "\"" THEN ParseFail
  ELSE Let(ParseChars(s, i + 1, <<>>), LAMBDA k :
         IF ~k.ok \/ Len(k.v.s) # 1 \/ k.pos >= Len(s) \/ s[k.pos] # ":" THEN ParseFail
         ELSE Let(ParseValue(s, k.pos + 1, nested), LAMBDA v :
                IF ~v.ok \/ v.pos > Len(s) THEN ParseFail
                ELSE Let(Put(acc, k.v.s[1], v.v), LAMBDA o :
                       IF s[v.pos] = "}"
                       THEN [ok |-> TRUE, pos |-> v.pos + 1, v |-> Undef,
                             o |-> o, nested |-> v.nested]
                       ELSE IF s[v.pos] = ","
                            THEN ParseMembers(s, v.pos + 1, o, v.nested, FALSE)
                            ELSE ParseFail)))

ParseResult(s, r) ==
  IF r.ok /\ r.pos = Len(s) + 1
  THEN [ok |-> TRUE, o |-> r.o, nested |-> r.nested]
  ELSE [ok |-> FALSE, o |-> <<>>, nested |-> <<>>]

\* JSON.parse(s): [ok, o, nested], ok = FALSE for a SyntaxError.
Parse(s) ==
  IF Len(s) < 2 \/ s[1] # "{" THEN [ok |-> FALSE, o |-> <<>>, nested |-> <<>>]
  ELSE ParseResult(s, ParseMembers(s, 2, <<>>, <<>>, TRUE))


(***************************************************************************)
(* The char codes of every atom, for hashing a token.                      *)
(***************************************************************************)
CharCodes(atom) ==
  CASE atom = "[" -> <<91>>
    [] atom = "]" -> <<93>>
    [] atom = "{" -> <<123>>
    [] atom = "}" -> <<125>>
    [] atom = ":" -> <<58>>
    [] atom = "," -> <<44>>
    [] atom = "\"" -> <<34>>
    [] atom = "\\" -> <<92>>
    [] atom = " " -> <<32>>
    [] atom = "<" -> <<60>>
    [] atom = ">" -> <<62>>
    [] atom = "&lt;" -> <<38, 108, 116, 59>>
    [] atom = "&gt;" -> <<38, 103, 116, 59>>
    [] atom = "&quot;" -> <<38, 113, 117, 111, 116, 59>>
    [] atom = "a" -> <<97>>
    [] atom = "b" -> <<98>>
    [] atom = "x" -> <<120>>
    [] atom = "type" -> <<116, 121, 112, 101>>
    [] atom = "fid" -> <<102, 105, 100>>
    [] atom = "view_mode" -> <<118, 105, 101, 119, 95, 109, 111, 100, 101>>
    [] atom = "alignment" -> <<97, 108, 105, 103, 110, 109, 101, 110, 116>>
    [] atom = "attributes" -> <<97, 116, 116, 114, 105, 98, 117, 116, 101, 115>>
    [] atom = "link_text" -> <<108, 105, 110, 107, 95, 116, 101, 120, 116>>
    [] atom = "external_url" -> <<101, 120, 116, 101, 114, 110, 97, 108, 95, 117, 114, 108>>
    [] atom = "file_type" -> <<102, 105, 108, 101, 95, 116, 121, 112, 101>>
    [] atom = "null" -> <<110, 117, 108, 108>>
    [] atom = "field_alt[und][0][value]" -> <<102, 105, 101, 108, 100, 95, 97, 108, 116, 91, 117, 110, 100, 93, 91, 48, 93, 91, 118, 97, 108, 117, 101, 93>>
    [] atom = "field_title[und][0][value]" -> <<102, 105, 101, 108, 100, 95, 116, 105, 116, 108, 101, 91, 117, 110, 100, 93, 91, 48, 93, 91, 118, 97, 108, 117, 101, 93>>
    [] atom = "field_tags[und][0][value]" -> <<102, 105, 101, 108, 100, 95, 116, 97, 103, 115, 91, 117, 110, 100, 93, 91, 48, 93, 91, 118, 97, 108, 117, 101, 93>>
    [] atom = "alt" -> <<97, 108, 116>>
    [] atom = "title" -> <<116, 105, 116, 108, 101>>
    [] atom = "class" -> <<99, 108, 97, 115, 115>>
    [] atom = "style" -> <<115, 116, 121, 108, 101>>
    [] atom = "data-fid" -> <<100, 97, 116, 97, 45, 102, 105, 100>>
    [] atom = "data-media-element" -> <<100, 97, 116, 97, 45, 109, 101, 100, 105, 97, 45, 101, 108, 101, 109, 101, 110, 116>>
    [] atom = "data-media-key" -> <<100, 97, 116, 97, 45, 109, 101, 100, 105, 97, 45, 107, 101, 121>>
    [] atom = "media" -> <<109, 101, 100, 105, 97>>
    [] atom = "file" -> <<102, 105, 108, 101>>
    [] atom = "default" -> <<100, 101, 102, 97, 117, 108, 116>>
    [] atom = "media_large" -> <<109, 101, 100, 105, 97, 95, 108, 97, 114, 103, 101>>
    [] atom = "full" -> <<102, 117, 108, 108>>
    [] atom = "left" -> <<108, 101, 102, 116>>
    [] atom = "right" -> <<114, 105, 103, 104, 116>>
    [] atom = "center" -> <<99, 101, 110, 116, 101, 114>>
    [] atom = "image" -> <<105, 109, 97, 103, 101>>
    [] atom = "0" -> <<48>>
    [] atom = "1" -> <<49>>
    [] atom = "2" -> <<50>>
    [] atom = "42" -> <<52, 50>>
    [] atom = "true" -> <<116, 114, 117, 101>>
    [] atom = "false" -> <<102, 97, 108, 115, 101>>
    [] atom = "media-element" -> <<109, 101, 100, 105, 97, 45, 101, 108, 101, 109, 101, 110, 116>>
    [] atom = "file-default" -> <<102, 105, 108, 101, 45, 100, 101, 102, 97, 117, 108, 116>>
    [] atom = "file-media-large" -> <<102, 105, 108, 101, 45, 109, 101, 100, 105, 97, 45, 108, 97, 114, 103, 101>>
    [] atom = "file-full" -> <<102, 105, 108, 101, 45, 102, 117, 108, 108>>
    [] atom = "file-" -> <<102, 105, 108, 101, 45>>
    [] atom = "media-wysiwyg-align-left" -> <<109, 101, 100, 105, 97, 45, 119, 121, 115, 105, 119, 121, 103, 45, 97, 108, 105, 103, 110, 45, 108, 101, 102, 116>>
    [] atom = "media-wysiwyg-align-right" -> <<109, 101, 100, 105, 97, 45, 119, 121, 115, 105, 119, 121, 103, 45, 97, 108, 105, 103, 110, 45, 114, 105, 103, 104, 116>>
    [] atom = "media-wysiwyg-align-center" -> <<109, 101, 100, 105, 97, 45, 119, 121, 115, 105, 119, 121, 103, 45, 97, 108, 105, 103, 110, 45, 99, 101, 110, 116, 101, 114>>
    [] atom = "media-wysiwyg-align-justify" -> <<109, 101, 100, 105, 97, 45, 119, 121, 115, 105, 119, 121, 103, 45, 97, 108, 105, 103, 110, 45, 106, 117, 115, 116, 105, 102, 121>>
    [] atom = "custom" -> <<99, 117, 115, 116, 111, 109>>
    [] atom = "my-file-x" -> <<109, 121, 45, 102, 105, 108, 101, 45, 120>>
    [] atom = "file-x" -> <<102, 105, 108, 101, 45, 120>>
    [] atom = "float:left" -> <<102, 108, 111, 97, 116, 58, 108, 101, 102, 116>>
    [] atom = "http://x" -> <<104, 116, 116, 112, 58, 47, 47, 120>>

RECURSIVE CodesOf(_)
CodesOf(s) == IF s = <<>> THEN <<>> ELSE CharCodes(Head(s)) \o CodesOf(Tail(s))

(***************************************************************************)
(* Drupal.settings.media: what the server hands to the page.               *)
(***************************************************************************)
\* tokenSchema: the properties of a token in the schema's order.
tokenSchema ==
  << [name |-> "type",         required |-> TRUE,  default |-> Undef],
     [name |-> "fid",          required |-> TRUE,  default |-> Undef],
     [name |-> "view_mode",    required |-> FALSE, default |-> Str(<<"default">>)],
     [name |-> "alignment",    required |-> FALSE, default |-> Str(<<>>)],
     [name |-> "attributes",   required |-> FALSE, default |-> Obj("default")],
     [name |-> "link_text",    required |-> FALSE, default |-> Str(<<>>)],
     [name |-> "external_url", required |-> FALSE, default |-> Str(<<>>)] >>

SchemaNames == {tokenSchema[i].name : i \in 1..Len(tokenSchema)}

\* wysiwygAllowedAttributes
wysiwygAllowedAttributes == <<"alt", "title", "class", "style">>

\* overridableFields[type]: the fields of a file type that a token may override.
overridableFields(type) ==
  IF type = Str(<<"image">>) THEN <<"field_alt", "field_title">> ELSE <<>>

\* The field a settings property belongs to: the text before its first '['.
FieldOfProperty(property) ==
  CASE property = "field_alt[und][0][value]"   -> "field_alt"
    [] property = "field_title[und][0][value]" -> "field_title"
    [] property = "field_tags[und][0][value]"  -> "field_tags"
    [] OTHER                                   -> ""

\* property.startsWith(field + '[')
StartsWithField(property, field) == field # "" /\ FieldOfProperty(property) = field

\* property.indexOf(field) != -1, for a property and a field name
ContainsField(property, field) == field # "" /\ FieldOfProperty(property) = field

(***************************************************************************)
(* The instance.  A method is an operator from the state it is called in   *)
(* (st: the instance's fields, the heap and fidTypeMap) to the state it    *)
(* leaves, what it returns (ret) and what it throws (err, <<>> for a       *)
(* normal return).  What a method changed before it threw stays changed.   *)
(***************************************************************************)
NoError == <<>>

SettingsNull == [null |-> TRUE, o |-> <<>>]
SettingsOf(o) == [null |-> FALSE, o |-> o]

\* A copy that is the source itself: an object is shared, not copied.
copyByReference(src, hp, cell) == [v |-> src, heap |-> hp]

\* Drupal.media.utils.copyAsNew(src); cell is where the copy of an object goes.
copyAsNew(src, hp, cell) ==
  IF src.t = "obj"
  THEN [v |-> Obj(cell), heap |-> [hp EXCEPT ![cell] = Cell(hp, src)]]
  ELSE [v |-> src, heap |-> hp]

\* The $.each over the schema in verifySettings, from its i-th property on.
RECURSIVE VerifyLoop(_, _)
VerifyLoop(st, i) ==
  IF i > Len(tokenSchema) THEN [st |-> st, err |-> NoError]
  ELSE LET p == tokenSchema[i]
           cur == Get(st.settings.o, p.name)
       IN  IF p.required
           THEN IF ~Truthy(cur)
                THEN [st |-> st, err |-> <<"Missing required property", p.name>>]
                ELSE VerifyLoop(st, i + 1)
           ELSE IF ~Truthy(cur)
                THEN LET c == copyAsNew(p.default, st.heap, "own")
                     IN  VerifyLoop([st EXCEPT !.settings.o = Put(@, p.name, c.v),
                                               !.heap = c.heap], i + 1)
                ELSE VerifyLoop(st, i + 1)

\* A verifySettings without the check of the type.
verifySettingsOfAnyType(st) ==
  IF st.settings.null
  THEN [st |-> st, err |-> <<"Invalid state: Cannot verify settings without settings.">>]
  ELSE VerifyLoop(st, 1)

verifySettings(st) ==
  IF st.settings.null
  THEN [st |-> st, err |-> <<"Invalid state: Cannot verify settings without settings.">>]
  ELSE Let(VerifyLoop(st, 1), LAMBDA r :
         IF r.err # NoError THEN r
         ELSE IF Get(r.st.settings.o, "type") # Str(<<"media">>)
              THEN [st |-> r.st, err |-> <<"Token not of type 'media'.">>]
              ELSE r)

getSettings(st) ==
  IF ~st.settings.null THEN [st |-> st, err |-> NoError]
  ELSE IF st.token = <<>> THEN [st |-> st, err |-> <<"Instance missing basic info">>]
  ELSE Let(Parse(RemoveFirst2(RemoveFirst2(st.token, "[", "["), "]", "]")), LAMBDA p :
         IF ~p.ok THEN [st |-> st, err |-> <<"SyntaxError">>]
         ELSE verifySettings([st EXCEPT !.settings = SettingsOf(p.o),
                                        !.heap.own = p.nested]))


\* Drupal.settings.media.attributeFields[attribute], '' when there is none.
FieldForAttribute(attribute) ==
  IF \E i \in 1..Len(attributeFields) : attributeFields[i][1] = attribute
  THEN attributeFields[CHOOSE i \in 1..Len(attributeFields) :
                         attributeFields[i][1] = attribute][2]
  ELSE ""

\* v != '' as JavaScript compares loosely.
NotEmptyString(v) ==
  CASE v.t = "str"  -> v.s # <<>>
    [] v.t = "num"  -> v.s # <<"0">>
    [] v.t = "bool" -> v.s # <<>>
    [] OTHER        -> TRUE

overrideLinkTitle(st) ==
  LET o == st.settings.o
      titleField == FieldForAttribute("title")
      hits == {i \in 1..Len(o) : ContainsField(o[i][1], titleField)}
      \* the loop keeps the last property whose name holds the field's name
      file_title_field_machine_name ==
        IF hits = {} THEN "" ELSE o[CHOOSE i \in hits : \A j \in hits : j <= i][1]
      title == Get(o, file_title_field_machine_name)
  IN  IF titleField = "" THEN Get(o, "link_text")
      ELSE IF title.t # "undef" /\ NotEmptyString(title) THEN title
      ELSE Get(o, "link_text")

\* o with the properties of the sequence ps assigned in their order.
RECURSIVE PutAll(_, _)
PutAll(o, ps) ==
  IF ps = <<>> THEN o ELSE PutAll(Put(o, Head(ps)[1], Head(ps)[2]), Tail(ps))

\* o with the properties whose names are in the set ks deleted.
DeleteAll(o, ks) == SelectSeq(o, LAMBDA p : p[1] \notin ks)

\* Drupal.media.WysiwygInstance.getOverridableFields(fid)
getOverridableFields(fidMap, fid) ==
  LET type == IF fid.s = <<>> THEN Undef ELSE Get(fidMap, fid.s[1])
  IN  IF Truthy(type) THEN overridableFields(type) ELSE <<>>

\* The first loop of prepareSettingsForToken, from the schema's i-th property on.
RECURSIVE CopySchemaProperties(_, _, _, _)
CopySchemaProperties(o, hp, pristine, i) ==
  IF i > Len(tokenSchema) THEN [pristine |-> pristine, heap |-> hp]
  ELSE LET property == tokenSchema[i].name
       IN  IF Truthy(Get(o, property))
           THEN LET c == copyAsNew(Get(o, property), hp, "tmp")
                IN  CopySchemaProperties(o, c.heap, Put(pristine, property, c.v), i + 1)
           ELSE CopySchemaProperties(o, hp, pristine, i + 1)

\* The second loop: the properties of settings that belong to the fields.
RECURSIVE FieldProperties(_, _)
FieldProperties(o, fields) ==
  IF fields = <<>> THEN <<>>
  ELSE SelectSeq(o, LAMBDA p : StartsWithField(p[1], Head(fields)))
       \o FieldProperties(o, Tail(fields))

\* The test of the filter over the items of the class attribute.
IsFileClass(item) ==
  /\ item # <<>>
  /\ \/ Head(item) \in {"file-default", "file-media-large", "file-full", "file-x"}
     \/ Head(item) = "file-" /\ Len(item) > 1

IsAlignClass(item) ==
  item \in {<<"media-wysiwyg-align-left">>, <<"media-wysiwyg-align-right">>,
            <<"media-wysiwyg-align-center">>}

\* A test of the filter that lets the alignment classes through.
IsGeneratedClassButAlign(className) ==
  className = <<"media-element">> \/ IsFileClass(className)

IsGeneratedClass(className) ==
  className = <<"media-element">> \/ IsFileClass(className) \/ IsAlignClass(className)

\* The class of pristine.attributes without the generated classes.
PristineClass(attrs, class) ==
  IF ~Truthy(class) THEN attrs
  ELSE Let(SelectSeq(Split(class.s), LAMBDA c : ~IsGeneratedClass(c)), LAMBDA classes :
         IF Len(classes) > 0 THEN Put(attrs, "class", Str(Join(classes)))
         ELSE Delete(attrs, "class"))

\* What prepareSettingsForToken does to the attributes of pristine.
PristineAttributes(attrs) ==
  Let(DeleteAll(attrs, {attributeFields[i][1] : i \in 1..Len(attributeFields)}
                       \cup {"data-fid", "data-media-element", "data-media-key"}),
      LAMBDA a1 : PristineClass(a1, Get(a1, "class")))

\* The end of prepareSettingsForToken: pristine.attributes (a) is cleaned, and
\* deleted when it has no keys left.  What is returned is pristine (o) and the
\* properties of its attributes object (attrs).
PristineEnd(pristine, hp, a) ==
  IF ~Truthy(a) THEN [o |-> pristine, attrs |-> <<>>]
  ELSE IF a.t = "obj"
       THEN Let(PristineAttributes(Cell(hp, a)), LAMBDA attrs :
              [o |-> IF Len(attrs) = 0 THEN Delete(pristine, "attributes") ELSE pristine,
               attrs |-> attrs])
  ELSE IF a.t = "str" THEN [o |-> pristine, attrs |-> <<>>]
  ELSE [o |-> Delete(pristine, "attributes"), attrs |-> <<>>]

prepareSettingsForToken(st) ==
  Let(getSettings(st), LAMBDA r :
    IF r.err # NoError THEN [st |-> r.st, ret |-> <<>>, err |-> r.err]
    ELSE Let(CopySchemaProperties(r.st.settings.o, r.st.heap, <<>>, 1), LAMBDA c :
      Let(PutAll(c.pristine,
                 FieldProperties(r.st.settings.o,
                                 getOverridableFields(r.st.fidTypeMap,
                                                      Get(r.st.settings.o, "fid")))),
          LAMBDA p2 : [st |-> r.st, ret |-> PristineEnd(p2, c.heap, Get(p2, "attributes")),
                       err |-> NoError])))

\* JSON.stringify(pristine)
StringifyPristine(p) ==
  Stringify(p.o, [default |-> <<>>, own |-> <<>>, tmp |-> p.attrs])

EscapeTags(s) == ReplaceAll(ReplaceAll(s, "<", <<"&lt;">>), ">", <<"&gt;">>)

\* The link text of getToken: a string is overridden and escaped.
TokenLinkText(st) ==
  IF Get(st.settings.o, "link_text").t # "str" THEN [st |-> st, err |-> NoError]
  ELSE Let(overrideLinkTitle(st), LAMBDA title :
         IF title.t # "str"
         THEN [st |-> [st EXCEPT !.settings.o = Put(@, "link_text", title)],
               err |-> <<"TypeError">>]
         ELSE [st |-> [st EXCEPT !.settings.o =
                         Put(@, "link_text", Str(EscapeTags(title.s)))],
               err |-> NoError])

getToken(st) ==
  IF st.token # <<>> THEN [st |-> st, ret |-> st.token, err |-> NoError]
  ELSE Let(getSettings(st), LAMBDA r :
    IF r.err # NoError THEN [st |-> r.st, ret |-> <<>>, err |-> r.err]
    ELSE Let(TokenLinkText(r.st), LAMBDA l :
      IF l.err # NoError THEN [st |-> l.st, ret |-> <<>>, err |-> l.err]
      ELSE Let(prepareSettingsForToken(l.st), LAMBDA p :
        Let(<<"[", "[">> \o StringifyPristine(p.ret) \o <<"]", "]">>, LAMBDA tok :
          [st |-> [p.st EXCEPT !.token = tok], ret |-> tok, err |-> NoError]))))

\* Drupal.media.WysiwygInstance.createKey(token)
createKey(tok) == <<"token-", ToString(hashCode(CodesOf(tok)))>>

getKey(st) ==
  IF st.key # <<>> THEN [st |-> st, ret |-> st.key, err |-> NoError]
  ELSE Let(getToken(st), LAMBDA r :
         IF r.err # NoError THEN r
         ELSE Let(createKey(r.ret), LAMBDA k :
                [st |-> [r.st EXCEPT !.key = k], ret |-> k, err |-> NoError]))


(***************************************************************************)
(* The placeholder.  An element is [tag, attrs, anchor, child]: its        *)
(* attributes in order, the inner html of its descendant link (one that    *)
(* holds no image; Undef when it has none) and, for a link that wraps an   *)
(* image, that image (<<>> otherwise).  The html of a node is held as the  *)
(* node it parses to; a bare text has the tag "#text".                     *)
(***************************************************************************)
Elem(tag, attrs, anchor, child) ==
  [tag |-> tag, attrs |-> attrs, anchor |-> anchor, child |-> child]

\* Drupal.media.utils.outerHTML($element)
outerHTML(el) == <<el>>

\* $(html)
ParseHtml(html) == html[1]

\* The classes of an element: the items of its class attribute.
ClassItems(el) ==
  SelectSeq(Split(Get(el.attrs, "class").s), LAMBDA c : c # <<>>)

\* $element.removeClass(...) of the classes that satisfy Test.
removeClass(el, Test(_)) ==
  IF ~Has(el.attrs, "class") THEN el
  ELSE [el EXCEPT !.attrs =
          Put(@, "class", Str(Join(SelectSeq(ClassItems(el), LAMBDA c : ~Test(c)))))]

\* $element.addClass(classes)
RECURSIVE addClass(_, _)
addClass(el, classes) ==
  IF classes = <<>> THEN el
  ELSE LET have == ClassItems(el)
           now == IF \E i \in 1..Len(have) : have[i] = Head(classes) THEN have
                  ELSE Append(have, Head(classes))
       IN  addClass([el EXCEPT !.attrs = Put(@, "class", Str(Join(now)))], Tail(classes))

\* /\bfile-\S+/ and /\bmedia-wysiwyg-align-\S+/ as they match a whole class.
IsAnyAlignClass(item) ==
  IsAlignClass(item) \/ item = <<"media-wysiwyg-align-justify">>

IsMediaElementClass(item) == item = <<"media-element">>

resetPlaceholderAttributesButClasses(el) ==
  [removeClass(el, IsMediaElementClass)
   EXCEPT !.attrs = DeleteAll(@, {"data-fid", "data-media-element", "data-media-key"})]

resetPlaceholderAttributes(el) ==
  [removeClass(removeClass(removeClass(el, IsFileClass), IsAnyAlignClass),
               IsMediaElementClass)
   EXCEPT !.attrs = DeleteAll(@, {"data-fid", "data-media-element", "data-media-key"})]

\* Drupal.media.utils.propertyStartsWith(fieldName + '[', haystack); "null"
\* is what the null it returns for no match becomes as a property name.
propertyStartsWith(fieldName, haystack) ==
  LET hits == {i \in 1..Len(haystack) : StartsWithField(haystack[i][1], fieldName)}
  IN  IF hits = {} THEN "null"
      ELSE haystack[CHOOSE i \in hits : \A j \in hits : i <= j][1]

\* The $.each of syncAttributesToFields over attributeFields from the i-th
\* pair on; o is settings, attrs is settings.attributes.
RECURSIVE SyncLoop(_, _, _, _)
SyncLoop(o, attrs, reverse, i) ==
  IF i > Len(attributeFields) THEN [o |-> o, attrs |-> attrs]
  ELSE LET attribute == attributeFields[i][1]
           fieldId == propertyStartsWith(attributeFields[i][2], o)
       IN  IF ~reverse
           THEN SyncLoop(Put(o, fieldId,
                             IF Truthy(Get(attrs, attribute)) THEN Get(attrs, attribute)
                             ELSE Str(<<>>)),
                         attrs, reverse, i + 1)
           ELSE IF Truthy(Get(o, fieldId))
                THEN SyncLoop(o, Put(attrs, attribute, Get(o, fieldId)), reverse, i + 1)
                ELSE SyncLoop(o, Delete(attrs, attribute), reverse, i + 1)

\* if (!settings.attributes) { settings.attributes = {}; }
EnsureAttributes(st) ==
  IF Truthy(Get(st.settings.o, "attributes")) THEN st
  ELSE [st EXCEPT !.settings.o = Put(@, "attributes", Obj("own")), !.heap.own = <<>>]

syncAttributesToFields(st, reverse) ==
  Let(getSettings(st), LAMBDA r :
    IF r.err # NoError THEN r
    ELSE Let(EnsureAttributes(r.st), LAMBDA s1 :
      Let(Get(s1.settings.o, "attributes").s[1], LAMBDA ref :
        Let(SyncLoop(s1.settings.o, s1.heap[ref], reverse, 1), LAMBDA l :
          [st |-> [s1 EXCEPT !.settings.o = l.o, !.heap[ref] = l.attrs],
           err |-> NoError]))))

syncFieldsToAttributes(st) == syncAttributesToFields(st, TRUE)


\* 'file-' + settings.view_mode.replace(/_/g, '-')
ViewModeClass(view_mode) ==
  CASE view_mode = <<"default">>     -> <<"file-default">>
    [] view_mode = <<"media_large">> -> <<"file-media-large">>
    [] view_mode = <<"full">>        -> <<"file-full">>

\* 'media-wysiwyg-align-' + settings.alignment
AlignmentClass(alignment) ==
  CASE alignment = <<"left">>   -> <<"media-wysiwyg-align-left">>
    [] alignment = <<"right">>  -> <<"media-wysiwyg-align-right">>
    [] alignment = <<"center">> -> <<"media-wysiwyg-align-center">>

\* The $.each of syncSettingsToPlaceholder over wysiwygAllowedAttributes.
RECURSIVE MoveAttributes(_, _, _)
MoveAttributes(el, attrs, i) ==
  IF i > Len(wysiwygAllowedAttributes) THEN el
  ELSE LET allowed_attribute == wysiwygAllowedAttributes[i]
           v == Get(attrs, allowed_attribute)
       IN  IF Truthy(v)
           THEN MoveAttributes([el EXCEPT !.attrs = Put(@, allowed_attribute, Str(v.s))],
                               attrs, i + 1)
           ELSE IF Truthy(Get(el.attrs, allowed_attribute))
                THEN MoveAttributes([el EXCEPT !.attrs = Delete(@, allowed_attribute)],
                                    attrs, i + 1)
                ELSE MoveAttributes(el, attrs, i + 1)

\* A link that wraps an image gives way to its children.
UnwrapLink(st) ==
  IF st.placeholder[1].tag = "a" /\ st.placeholder[1].child # <<>>
  THEN [st EXCEPT !.placeholder = @[1].child] ELSE st

\* settings.attributes (a) go to the element and are deleted.
MoveSettingsAttributes(st, a) ==
  IF Truthy(a)
  THEN [st EXCEPT !.placeholder[1] = MoveAttributes(@, Cell(st.heap, a), 1),
                  !.settings.o = Delete(@, "attributes"),
                  !.heap.own = <<>>]
  ELSE st

\* resetPlaceholderAttributes() and .attr('data-fid', settings.fid)
ResetAndSetFid(st) ==
  [st EXCEPT !.placeholder[1] =
     [resetPlaceholderAttributes(@) EXCEPT !.attrs =
        Put(@, "data-fid", Str(Get(st.settings.o, "fid").s))]]

\* .attr('data-media-key', k) and the classes of the settings
AddKeyAndClasses(st, k) ==
  [st EXCEPT !.placeholder[1] =
     addClass([@ EXCEPT !.attrs = Put(@, "data-media-key", Str(k))],
              <<<<"media-element">>, ViewModeClass(Get(st.settings.o, "view_mode").s)>>
              \o (IF Truthy(Get(st.settings.o, "alignment"))
                  THEN <<AlignmentClass(Get(st.settings.o, "alignment").s)>>
                  ELSE <<>>))]

\* settings.link_text = link_text, which goes to the element's link
ApplyLinkText(st, link_text) ==
  [st EXCEPT !.settings.o = Put(@, "link_text", link_text),
             !.placeholder[1].anchor =
               IF Truthy(link_text) /\ ~Truthy(Get(st.settings.o, "external_url"))
                  /\ @.t # "undef"
               THEN Str(link_text.s) ELSE @]

syncSettingsToPlaceholder(st) ==
  Let(getSettings(st), LAMBDA r :
    IF r.err # NoError THEN [st |-> r.st, err |-> r.err]
    ELSE IF r.st.placeholder = <<>>
         THEN [st |-> r.st, err |-> <<"Invalid state: Instance placeholder is missing.">>]
    ELSE Let(syncFieldsToAttributes(UnwrapLink(r.st)), LAMBDA f :
      Let(MoveSettingsAttributes(f.st, Get(f.st.settings.o, "attributes")), LAMBDA s2 :
        Let(getKey(ResetAndSetFid(s2)), LAMBDA k :
          IF k.err # NoError THEN [st |-> k.st, err |-> k.err]
          ELSE Let(AddKeyAndClasses(k.st, k.ret), LAMBDA s4 :
                 [st |-> ApplyLinkText(s4, overrideLinkTitle(s4)), err |-> NoError])))))


(***************************************************************************)
(* The objects, tokens and elements the model is run on.                   *)
(***************************************************************************)
Type(t)      == <<"type", Str(<<t>>)>>
Fid(n)       == <<"fid", Num(n)>>
ViewMode(m)  == <<"view_mode", Str(<<m>>)>>
Alignment(a) == <<"alignment", Str(<<a>>)>>
Attributes   == <<"attributes", Obj("own")>>
LinkText(s)  == <<"link_text", Str(s)>>
FieldAlt(s)  == <<"field_alt[und][0][value]", Str(s)>>
FieldTitle(s) == <<"field_title[und][0][value]", Str(s)>>
FieldTags(s) == <<"field_tags[und][0][value]", Str(s)>>
Attr(n, s)   == <<n, Str(s)>>

\* A settings object given to the constructor: its properties and those of
\* its attributes object.
ObjectInfo(o, attrs) == [kind |-> "object", o |-> o, attrs |-> attrs, token |-> <<>>]
\* A token given to the constructor.
StringInfo(tok) == [kind |-> "string", o |-> <<>>, attrs |-> <<>>, token |-> tok]

\* The token of an object as the server writes it.
TokenOf(o, attrs) ==
  <<"[", "[">> \o Stringify(o, [default |-> <<>>, own |-> attrs, tmp |-> <<>>])
  \o <<"]", "]">>

ImgClasses == <<"media-element", " ", "file-default", " ", "custom">>

\* <img class="media-element file-default custom" alt="a">
ImgElement ==
  Elem("img", <<Attr("class", ImgClasses), Attr("alt", <<"a">>)>>, Undef, <<>>)

\* <img alt="b" style="float:left" title="x">
BareImgElement ==
  Elem("img", <<Attr("alt", <<"b">>), Attr("style", <<"float:left">>),
                Attr("title", <<"x">>)>>, Undef, <<>>)

\* <span class="file"><a href="...">a</a></span>
FileLinkElement ==
  Elem("span", <<Attr("class", <<"custom">>)>>, Str(<<"a">>), <<>>)

\* <a href="..."><img class="media-wysiwyg-align-justify file-x" alt="a"></a>
WrappedImgElement ==
  Elem("a", <<>>, Undef,
       <<Elem("img", <<Attr("class", <<"media-wysiwyg-align-justify", " ", "file-x">>),
                       Attr("alt", <<"a">>)>>, Undef, <<>>)>>)

\* A bare text, as the server renders a file without a display.
TextNode == Elem("#text", <<>>, Undef, <<>>)

\* The tokens of the text being edited.
PlainToken == TokenOf(<<Type("media"), Fid("1"), ViewMode("default")>>, <<>>)

StyledToken ==
  TokenOf(<<Type("media"), Fid("1"), ViewMode("media_large"), Alignment("left"),
            Attributes, FieldAlt(<<"a">>)>>,
          <<Attr("style", <<"float:left">>), Attr("class", <<"custom">>)>>)

TextToken == TokenOf(<<Type("media"), Fid("2"), ViewMode("full")>>, <<>>)

FileToken == TokenOf(<<Type("file"), Fid("1")>>, <<>>)

NoFidToken == TokenOf(<<Type("media"), ViewMode("default")>>, <<>>)

BrokenToken == <<"[", "[", "{", "\"", "type", "\"", "]", "]">>

\* Drupal.settings.media.tagMap: the html the server rendered for the tokens
\* of the text, by their keys.
TagMapTokens ==
  << <<PlainToken, outerHTML(ImgElement)>>,
     <<StyledToken, outerHTML(WrappedImgElement)>>,
     <<TextToken, outerHTML(TextNode)>> >>

\* Drupal.settings.media.tagMap[k], <<>> for undefined
RECURSIVE TagMapFrom(_, _)
TagMapFrom(k, i) ==
  IF i > Len(TagMapTokens) THEN <<>>
  ELSE IF createKey(TagMapTokens[i][1]) = k THEN TagMapTokens[i][2]
  ELSE TagMapFrom(k, i + 1)

tagMap(k) == TagMapFrom(k, 1)

setPlaceholderBase(st, html) == [st EXCEPT !.placeholderBase = html]

\* A bare text is wrapped in a span.
WrapText(html) ==
  IF html[1].tag = "#text" THEN <<[html[1] EXCEPT !.tag = "span"]>> ELSE html

getPlaceholderBase(st) ==
  IF st.placeholderBase # <<>>
  THEN [st |-> st, ret |-> st.placeholderBase, err |-> NoError]
  ELSE Let(getKey(st), LAMBDA k :
    IF k.err # NoError THEN [st |-> k.st, ret |-> <<>>, err |-> k.err]
    ELSE Let(tagMap(k.ret), LAMBDA html :
      IF html = <<>>
      THEN [st |-> k.st, ret |-> <<>>, err |-> <<"Unable to retrieve media html.">>]
      ELSE Let(WrapText(html), LAMBDA base :
             [st |-> [k.st EXCEPT !.placeholderBase = base], ret |-> base,
              err |-> NoError])))

getPlaceholder(st) ==
  IF st.placeholder # <<>> THEN [st |-> st, err |-> NoError]
  ELSE Let(getPlaceholderBase(st), LAMBDA b :
         IF b.err # NoError THEN [st |-> b.st, err |-> b.err]
         ELSE syncSettingsToPlaceholder(
                [b.st EXCEPT !.placeholder = <<ParseHtml(b.ret)>>]))

\* The $.each of syncPlaceholderToSettings over wysiwygAllowedAttributes.
RECURSIVE ReadAttributes(_, _, _)
ReadAttributes(el, attrs, i) ==
  IF i > Len(wysiwygAllowedAttributes) THEN attrs
  ELSE LET allowed_attribute == wysiwygAllowedAttributes[i]
           value == Get(el.attrs, allowed_attribute)
       IN  IF Truthy(value)
           THEN ReadAttributes(el,
                  Put(attrs, allowed_attribute,
                      Str(ReplaceFirst(value.s, "&quot;", <<"\\", "\"">>))), i + 1)
           ELSE ReadAttributes(el, attrs, i + 1)

\* settings.attributes = {} and the $.each that fills it from the element
FlushAttributes(st, el) ==
  [st EXCEPT !.settings.o = Put(@, "attributes", Obj("own")),
             !.heap.own = ReadAttributes(el, <<>>, 1)]

\* An end of syncPlaceholderToSettings that forgets to reset the key.
PlaceholderOwnsKeepingKey(st, el) ==
  [setPlaceholderBase([st EXCEPT !.settings.o =
                         Put(@, "link_text", IF doLinkText THEN el.anchor ELSE False)],
                      outerHTML(el))
   EXCEPT !.token = <<>>]

\* An end of syncPlaceholderToSettings that forgets to reset the token.
PlaceholderOwnsKeepingToken(st, el) ==
  [setPlaceholderBase([st EXCEPT !.settings.o =
                         Put(@, "link_text", IF doLinkText THEN el.anchor ELSE False)],
                      outerHTML(el))
   EXCEPT !.key = <<>>]

\* The end of syncPlaceholderToSettings: the link text, the base, and the
\* token and key, which are outdated.
PlaceholderOwns(st, el) ==
  [setPlaceholderBase([st EXCEPT !.settings.o =
                         Put(@, "link_text", IF doLinkText THEN el.anchor ELSE False)],
                      outerHTML(el))
   EXCEPT !.token = <<>>, !.key = <<>>]

syncPlaceholderToSettings(st) ==
  Let(getPlaceholder(st), LAMBDA p :
    IF p.err # NoError THEN p
    ELSE Let(getSettings(p.st), LAMBDA r :
      IF r.err # NoError THEN r
      ELSE Let(r.st.placeholder[1], LAMBDA el :
        Let(syncAttributesToFields(FlushAttributes(r.st, el), FALSE), LAMBDA f :
          [st |-> PlaceholderOwns(f.st, el), err |-> NoError]))))

setPlaceholder(st, el) ==
  syncPlaceholderToSettings([st EXCEPT !.placeholder = <<el>>,
                                       !.placeholderBase = outerHTML(el)])

\* An instance as the constructor first assigns its fields.
Blank(fidMap) ==
  [token |-> <<>>, settings |-> SettingsNull, key |-> <<>>,
   placeholderBase |-> <<>>, placeholder |-> <<>>,
   heap |-> [default |-> <<>>, own |-> <<>>, tmp |-> <<>>],
   fidTypeMap |-> fidMap]

\* this.settings = instanceInfo, or this.token = instanceInfo
Given(fidMap, instanceInfo) ==
  IF instanceInfo.kind = "object"
  THEN [Blank(fidMap) EXCEPT !.settings = SettingsOf(instanceInfo.o),
                             !.heap.own = instanceInfo.attrs]
  ELSE [Blank(fidMap) EXCEPT !.token = instanceInfo.token]

\* if (this.settings.file_type) { fidTypeMap[this.settings.fid] = ... }
MapFileType(st) ==
  IF Truthy(Get(st.settings.o, "file_type"))
  THEN [st EXCEPT !.fidTypeMap =
          Put(@, Get(st.settings.o, "fid").s[1], Get(st.settings.o, "file_type"))]
  ELSE st

\* if (placeholderBase) { this.placeholderBase = placeholderBase; }
WithBase(st, base) ==
  IF base # <<>> THEN [st EXCEPT !.placeholderBase = base] ELSE st

\* The constructor; err tells why it threw.
WysiwygInstance(fidMap, instanceInfo, base) ==
  IF instanceInfo.kind = "object"
  THEN Let(verifySettings(Given(fidMap, instanceInfo)), LAMBDA v :
         IF v.err # NoError THEN v
         ELSE [st |-> WithBase(MapFileType(v.st), base), err |-> NoError])
  ELSE [st |-> WithBase(Given(fidMap, instanceInfo), base), err |-> NoError]


(***************************************************************************)
(* The life of one instance: the constructor, then any calls of its        *)
(* methods.                                                                *)
(***************************************************************************)
Self ==
  [token |-> token, settings |-> settings, key |-> key,
   placeholderBase |-> placeholderBase, placeholder |-> placeholder,
   heap |-> heap, fidTypeMap |-> fidTypeMap]

Commit(st) ==
  /\ token' = st.token
  /\ settings' = st.settings
  /\ key' = st.key
  /\ placeholderBase' = st.placeholderBase
  /\ placeholder' = st.placeholder
  /\ heap' = st.heap
  /\ fidTypeMap' = st.fidTypeMap

Called(op, err, ret) == [op |-> op, err |-> err, ret |-> ret]

\* What before holds when a call is made on the instance st.
Found(st) == [st |-> st, op |-> call.op, err |-> call.err]

DefaultAttributeFields == << <<"alt", "field_alt">>, <<"title", "field_title">> >>

\* What the constructor is given.
InstanceInfos ==
  { ObjectInfo(<<Type("media"), Fid("1"), ViewMode("media_large"), Alignment("left"),
                 Attributes, FieldAlt(<<"a">>), LinkText(<<"<", "b", ">">>)>>,
               <<Attr("class", <<"custom", " ", "file-x">>),
                 Attr("style", <<"float:left">>)>>),
    ObjectInfo(<<Type("media"), Fid("2"), <<"file_type", Str(<<"image">>)>>,
                 FieldTitle(<<"x">>)>>, <<>>),
    ObjectInfo(<<Type("file"), Fid("1")>>, <<>>),
    ObjectInfo(<<Type("media")>>, <<>>),
    StringInfo(PlainToken), StringInfo(StyledToken), StringInfo(TextToken),
    StringInfo(FileToken), StringInfo(NoFidToken), StringInfo(BrokenToken),
    StringInfo(<<>>) }

PlaceholderBases == {<<>>, outerHTML(BareImgElement)}

\* The elements an editor hands to setPlaceholder.
EditorElements == {ImgElement, FileLinkElement, WrappedImgElement}

\* No page of the media browser: an instance lives in the editor.
NoContext == [displays |-> <<>>, items |-> <<>>]

Init ==
  /\ token = <<>>
  /\ settings = SettingsNull
  /\ key = <<>>
  /\ placeholderBase = <<>>
  /\ placeholder = <<>>
  /\ heap = [default |-> <<>>, own |-> <<>>, tmp |-> <<>>]
  /\ fidTypeMap = << <<"1", Str(<<"image">>)>> >>
  /\ attributeFields = DefaultAttributeFields
  /\ doLinkText \in BOOLEAN
  /\ phase = "none"
  /\ call = Called("", NoError, <<>>)
  /\ before = [st |-> Blank(<<>>), op |-> "", err |-> NoError]
  /\ hstr = <<>>
  /\ hres = 0
  /\ panels = <<>>
  /\ drawers = NoContext

\* new Drupal.media.WysiwygInstance(info, base), for info and base of the
\* given sets.  A constructor that throws leaves no instance.
ConstructFrom(Infos, Bases) ==
  /\ phase = "none"
  /\ \E info \in Infos, base \in Bases :
       \E r \in {WysiwygInstance(fidTypeMap, info, base)} :
         /\ call' = Called("new", r.err, <<>>)
         /\ before' = Found(Given(fidTypeMap, info))
         /\ IF r.err = NoError
            THEN Commit(r.st) /\ phase' = "live"
            ELSE /\ phase' = "failed"
                 /\ UNCHANGED <<token, settings, key, placeholderBase, placeholder,
                                heap, fidTypeMap>>
  /\ UNCHANGED <<attributeFields, doLinkText, hstr, hres, panels, drawers>>

Construct == ConstructFrom(InstanceInfos, PlaceholderBases)

\* A call of a method: r is what the method made of the instance.
Method(op, r, ret) ==
  /\ Commit(r.st)
  /\ call' = Called(op, r.err, IF r.err = NoError THEN ret ELSE <<>>)
  /\ before' = Found(Self)
  /\ UNCHANGED <<attributeFields, doLinkText, phase, hstr, hres, panels, drawers>>

GetSettings ==
  /\ phase = "live"
  /\ \E r \in {getSettings(Self)} : Method("getSettings", r, <<>>)

GetToken ==
  /\ phase = "live"
  /\ \E r \in {getToken(Self)} : Method("getToken", r, r.ret)

GetKey ==
  /\ phase = "live"
  /\ \E r \in {getKey(Self)} : Method("getKey", r, r.ret)

GetPlaceholderBase ==
  /\ phase = "live"
  /\ \E r \in {getPlaceholderBase(Self)} : Method("getPlaceholderBase", r, r.ret)

GetPlaceholder ==
  /\ phase = "live"
  /\ \E r \in {getPlaceholder(Self)} : Method("getPlaceholder", r, <<>>)

SetPlaceholder ==
  /\ phase = "live"
  /\ \E el \in EditorElements \cup {placeholder[i] : i \in 1..Len(placeholder)} :
       \E r \in {setPlaceholder(Self, el)} : Method("setPlaceholder", r, <<>>)

SetPlaceholderBase ==
  /\ phase = "live"
  /\ \E html \in PlaceholderBases \ {<<>>} :
       Method("setPlaceholderBase",
              [st |-> setPlaceholderBase(Self, html), err |-> NoError], <<>>)

Next ==
  \/ Construct
  \/ GetSettings
  \/ GetToken
  \/ GetKey
  \/ GetPlaceholderBase
  \/ GetPlaceholder
  \/ SetPlaceholder
  \/ SetPlaceholderBase

Spec == Init /\ [][Next]_vars

(***************************************************************************)
(* hashCode on its own: the strings of up to MaxHashLen chars over three   *)
(* char codes, the largest of which makes hash << 5 wrap early.            *)
(***************************************************************************)
HashChars == {1, 122, 65535}

HashStrings == UNION {[1..n -> HashChars] : n \in 0..MaxHashLen}

InitHash ==
  /\ token = <<>>
  /\ settings = SettingsNull
  /\ key = <<>>
  /\ placeholderBase = <<>>
  /\ placeholder = <<>>
  /\ heap = [default |-> <<>>, own |-> <<>>, tmp |-> <<>>]
  /\ fidTypeMap = <<>>
  /\ attributeFields = DefaultAttributeFields
  /\ doLinkText = FALSE
  /\ phase = "hash"
  /\ call = Called("", NoError, <<>>)
  /\ before = [st |-> Blank(<<>>), op |-> "", err |-> NoError]
  /\ hstr \in HashStrings
  /\ hres = 0
  /\ panels = <<>>
  /\ drawers = NoContext

HashCode ==
  /\ phase = "hash"
  /\ hres' = hashCode(hstr)
  /\ phase' = "hashed"
  /\ call' = Called("hashCode", NoError, <<>>)
  /\ UNCHANGED <<token, settings, key, placeholderBase, placeholder, heap, fidTypeMap,
                 attributeFields, doLinkText, before, hstr, panels, drawers>>

NextHash == HashCode

SpecHash == InitHash /\ [][NextHash]_vars

(***************************************************************************)
(* The settings on their own: an instance is made of one of many settings  *)
(* objects or tokens, and then one of the operations on settings is        *)
(* applied to it.                                                          *)
(***************************************************************************)
TypeChoices == {<<>>, <<Type("media")>>, <<Type("file")>>, << <<"type", Str(<<>>)>> >>}

FidChoices == {<<>>, <<Fid("1")>>, <<Fid("2")>>, <<Fid("0")>>}

ViewModeChoices == {<<>>, <<ViewMode("full")>>, << <<"view_mode", Str(<<>>)>> >>}

AlignmentChoices == {<<>>, <<Alignment("left")>>}

LinkTextChoices ==
  {<<>>, <<LinkText(<<"<", "b", ">">>)>>, <<LinkText(<<"a", "]", "]", "b">>)>>,
   << <<"link_text", False>> >>}

FieldChoices ==
  {<<>>, <<FieldAlt(<<"a">>)>>, <<FieldTitle(<<"x">>), FieldTags(<<"b">>)>>}

\* The attributes objects: none, or one with the given properties.
AttributesChoices ==
  { [has |-> <<>>, attrs |-> <<>>],
    [has |-> <<Attributes>>, attrs |-> <<>>],
    [has |-> <<Attributes>>, attrs |-> <<Attr("alt", <<"a">>), Attr("title", <<"x">>)>>],
    [has |-> <<Attributes>>,
     attrs |-> <<Attr("class", <<"media-element", " ", "custom", " ", "file-x">>),
                 Attr("data-fid", <<"1">>), Attr("alt", <<"a">>)>>],
    [has |-> <<Attributes>>,
     attrs |-> <<Attr("class", <<"media-wysiwyg-align-left", " ", "file-default">>),
                 Attr("style", <<"float:left">>)>>],
    [has |-> <<Attributes>>,
     attrs |-> <<Attr("class", <<"media-element", " ">>), Attr("alt", <<>>)>>] }

SettingsInfos ==
  { ObjectInfo(t \o f \o v \o al \o at.has \o l \o fl, at.attrs) :
      t \in TypeChoices, f \in FidChoices, v \in ViewModeChoices,
      al \in AlignmentChoices, at \in AttributesChoices, l \in LinkTextChoices,
      fl \in FieldChoices }

TokenInfos ==
  { StringInfo(TokenOf(t \o f \o at.has \o l, at.attrs)) :
      t \in TypeChoices, f \in FidChoices, at \in AttributesChoices,
      l \in LinkTextChoices }
  \cup {StringInfo(BrokenToken)}

AttributeFieldTables ==
  {DefaultAttributeFields, << <<"alt", "field_alt">> >>, <<>>}

InitSettings ==
  /\ token = <<>>
  /\ settings = SettingsNull
  /\ key = <<>>
  /\ placeholderBase = <<>>
  /\ placeholder = <<>>
  /\ heap = [default |-> <<>>, own |-> <<>>, tmp |-> <<>>]
  /\ fidTypeMap = << <<"1", Str(<<"image">>)>> >>
  /\ attributeFields \in AttributeFieldTables
  /\ doLinkText = FALSE
  /\ phase = "none"
  /\ call = Called("", NoError, <<>>)
  /\ before = [st |-> Blank(<<>>), op |-> "", err |-> NoError]
  /\ hstr = <<>>
  /\ hres = 0
  /\ panels = <<>>
  /\ drawers = NoContext

ConstructSettings == ConstructFrom(SettingsInfos \cup TokenInfos, {<<>>})

\* getSettings() on an instance whose settings are still to be parsed.
ResolveSettings ==
  /\ settings.null
  /\ GetSettings

\* A call of an operation on settings, after which the instance is left alone.
Applied(op, r, ret) ==
  /\ Commit(r.st)
  /\ call' = Called(op, r.err, ret)
  /\ before' = Found(Self)
  /\ phase' = "done"
  /\ UNCHANGED <<attributeFields, doLinkText, hstr, hres, panels, drawers>>

PrepareSettingsForToken ==
  /\ phase = "live"
  /\ \E r \in {prepareSettingsForToken(Self)} :
       Applied("prepareSettingsForToken", r, r.ret)

\* syncAttributesToFields() and then syncFieldsToAttributes()
reconcile(st) ==
  Let(syncAttributesToFields(st, FALSE), LAMBDA a :
    IF a.err # NoError THEN a ELSE syncFieldsToAttributes(a.st))

Reconcile ==
  /\ phase = "live"
  /\ \E r \in {reconcile(Self)} : Applied("reconcile", r, <<>>)

\* What a round trip of the token returns: how far it came (stage), the token,
\* the settings and their attributes that a new instance read from the token,
\* and the token that an instance made of those settings writes.
Trip(stage, tok, o, attrs, again) ==
  [stage |-> stage, token |-> tok, o |-> o, attrs |-> attrs, again |-> again]

\* getToken(), then getSettings() of a new instance given that token, then
\* getToken() of a new instance given those settings.
tokenRoundTrip(st) ==
  Let(getToken(st), LAMBDA t :
    IF t.err # NoError
    THEN [st |-> t.st, ret |-> Trip("getToken", <<>>, <<>>, <<>>, <<>>), err |-> t.err]
    ELSE Let(getSettings(WysiwygInstance(t.st.fidTypeMap, StringInfo(t.ret), <<>>).st),
             LAMBDA r :
      IF r.err # NoError
      THEN [st |-> t.st, ret |-> Trip("getSettings", t.ret, <<>>, <<>>, <<>>),
            err |-> r.err]
      ELSE Let(getToken(Given(r.st.fidTypeMap,
                              ObjectInfo(r.st.settings.o, r.st.heap.own))),
               LAMBDA u :
             [st |-> t.st,
              ret |-> Trip("again", t.ret, r.st.settings.o, r.st.heap.own, u.ret),
              err |-> u.err])))

TokenRoundTrip ==
  /\ phase = "live"
  /\ \E r \in {tokenRoundTrip(Self)} : Applied("tokenRoundTrip", r, r.ret)

NextSettings ==
  \/ ConstructSettings
  \/ ResolveSettings
  \/ PrepareSettingsForToken
  \/ Reconcile
  \/ TokenRoundTrip

SpecSettings == InitSettings /\ [][NextSettings]_vars

(***************************************************************************)
(* The placeholder on its own: an instance is made for one of many         *)
(* combinations of view mode, alignment and attributes, and its            *)
(* placeholder goes from the instance to the editor and back.              *)
(***************************************************************************)
DomAttributesChoices ==
  { [has |-> <<>>, attrs |-> <<>>],
    [has |-> <<Attributes>>, attrs |-> <<Attr("class", <<"custom">>)>>],
    [has |-> <<Attributes>>,
     attrs |-> <<Attr("style", <<"float:left">>), Attr("alt", <<"a">>)>>],
    [has |-> <<Attributes>>,
     attrs |-> <<Attr("class", <<"custom", " ", "file-x">>), Attr("title", <<"x">>)>>] }

DomInfos ==
  { ObjectInfo(<<Type("media")>> \o f \o v \o al \o at.has \o fl, at.attrs) :
      f \in {<<Fid("1")>>, <<Fid("2")>>},
      v \in {<<>>, <<ViewMode("default")>>, <<ViewMode("media_large")>>,
             <<ViewMode("full")>>},
      al \in {<<>>, <<Alignment("left")>>, <<Alignment("right")>>,
              <<Alignment("center")>>},
      at \in DomAttributesChoices,
      fl \in {<<>>, <<FieldAlt(<<"b">>)>>} }
  \cup {StringInfo(PlainToken), StringInfo(StyledToken), StringInfo(TextToken)}

DomBases == {<<>>, outerHTML(BareImgElement), outerHTML(FileLinkElement)}

ConstructDom == ConstructFrom(DomInfos, DomBases)

\* What a round trip of the placeholder returns: how far it came (stage), the
\* element that getPlaceholder() made and the one made after setPlaceholder.
Elements(stage, first, second) == [stage |-> stage, first |-> first, second |-> second]

\* getPlaceholder(), setPlaceholder() of that element, and the settings synced
\* to a new element made of the placeholder base.
domRoundTrip(st) ==
  Let(getPlaceholder(st), LAMBDA g :
    IF g.err # NoError
    THEN [st |-> g.st, ret |-> Elements("getPlaceholder", <<>>, <<>>), err |-> g.err]
    ELSE Let(setPlaceholder(g.st, g.st.placeholder[1]), LAMBDA s :
      IF s.err # NoError
      THEN [st |-> s.st, ret |-> Elements("setPlaceholder", g.st.placeholder, <<>>),
            err |-> s.err]
      ELSE Let(getPlaceholder([s.st EXCEPT !.placeholder = <<>>]), LAMBDA f :
             [st |-> f.st,
              ret |-> Elements("rebuild", g.st.placeholder, f.st.placeholder),
              err |-> f.err])))

DomRoundTrip ==
  /\ phase = "live"
  /\ \E r \in {domRoundTrip(Self)} : Applied("domRoundTrip", r, r.ret)

NextDom ==
  \/ ConstructDom
  \/ DomRoundTrip

SpecDom == Init /\ [][NextDom]_vars

(***************************************************************************)
(* Drupal.media.utils.alignMedia and getMediaAlignment, on the placeholder *)
(* of an instance.  An alignment is a string: <<"left">>, <<"right">> or   *)
(* <<"center">>; <<>> stands for the null of getMediaAlignment.            *)
(***************************************************************************)
\* The alignment that an alignment class names.
AlignmentOfClass(item) ==
  CASE item = <<"media-wysiwyg-align-left">>   -> <<"left">>
    [] item = <<"media-wysiwyg-align-right">>  -> <<"right">>
    [] item = <<"media-wysiwyg-align-center">> -> <<"center">>

\* $element.attr('class').match(alignRe): the pattern is not anchored and its
\* optional prefix is greedy, so it finds the last alignment class that
\* follows a space, and the class at the very start when there is no such.
MatchAlignClass(class) ==
  LET items == Split(class)
      hits == {i \in 2..Len(items) : IsAlignClass(items[i])}
  IN  IF hits # {}
      THEN AlignmentOfClass(items[CHOOSE i \in hits : \A j \in hits : j <= i])
      ELSE IF IsAlignClass(items[1]) THEN AlignmentOfClass(items[1]) ELSE <<>>

FloatDeclarations == {"float:left", "float:right"}

\* $element.css('float'), of the inline style
CssFloat(el) ==
  LET style == Get(el.attrs, "style").s
  IN  IF \E i \in 1..Len(style) : style[i] = "float:left" THEN <<"left">>
      ELSE IF \E i \in 1..Len(style) : style[i] = "float:right" THEN <<"right">>
      ELSE <<"none">>

\* $element.css('float', '')
ClearCssFloat(el) ==
  IF ~Has(el.attrs, "style") THEN el
  ELSE [el EXCEPT !.attrs =
          Put(@, "style", Str(SelectSeq(Get(@, "style").s,
                                        LAMBDA d : d \notin FloatDeclarations)))]

\* Drupal.media.utils.getMediaAlignment($element)
getMediaAlignment(el) ==
  IF MatchAlignClass(Get(el.attrs, "class").s) # <<>>
  THEN MatchAlignClass(Get(el.attrs, "class").s)
  ELSE IF el.tag \in {"img", "div"}
       THEN IF CssFloat(el) \in {<<"left">>, <<"right">>} THEN CssFloat(el)
            ELSE IF Get(el.attrs, "align") \in {Str(<<"left">>), Str(<<"right">>)}
                 THEN Get(el.attrs, "align").s
                 ELSE <<>>
       ELSE <<>>

hasClass(el, class) == \E i \in 1..Len(ClassItems(el)) : ClassItems(el)[i] = class

\* resetAlignment($element) of alignMedia
resetAlignment(el, currentAlignment) ==
  Let(IF currentAlignment \in {<<"left">>, <<"right">>, <<"center">>}
      THEN Str(Join(SelectSeq(ClassItems(el),
                              LAMBDA c : c # AlignmentClass(currentAlignment))))
      ELSE Get(el.attrs, "class"),
      LAMBDA class :
        ClearCssFloat([el EXCEPT !.attrs =
                         DeleteAll(Put(@, "class", class),
                                   {"data-picture-align", "float"})]))

\* Drupal.media.filter.getMediaInstanceFromElement($element): the instance
\* whose placeholder the element is.
getMediaInstanceFromElement(st, el) == st.placeholder = <<el>>

\* setAlignment($element, value) of alignMedia
setAlignment(st, value) ==
  Let(addClass(st.placeholder[1], <<AlignmentClass(value)>>), LAMBDA el :
    IF getMediaInstanceFromElement(st, st.placeholder[1])
    THEN Let(getSettings([st EXCEPT !.placeholder = <<el>>]), LAMBDA r :
           IF r.err # NoError THEN [st |-> r.st, ret |-> FALSE, err |-> r.err]
           ELSE [st |-> [r.st EXCEPT !.settings.o = Put(@, "alignment", Str(value))],
                 ret |-> TRUE, err |-> NoError])
    ELSE [st |-> [st EXCEPT !.placeholder = <<el>>], ret |-> TRUE, err |-> NoError])

\* Drupal.media.utils.alignMedia($element, value, toggle), $element being the
\* placeholder of the instance
alignMedia(st, value, toggle) ==
  IF ~hasClass(st.placeholder[1], <<"media-element">>)
  THEN [st |-> st, ret |-> FALSE, err |-> NoError]
  ELSE Let(getMediaAlignment(st.placeholder[1]), LAMBDA currentAlignment :
    IF currentAlignment = value
    THEN IF toggle
         THEN [st |-> [st EXCEPT !.placeholder[1] = resetAlignment(@, currentAlignment)],
               ret |-> FALSE, err |-> NoError]
         ELSE [st |-> st, ret |-> TRUE, err |-> NoError]
    ELSE setAlignment(IF currentAlignment # <<>>
                      THEN [st EXCEPT !.placeholder[1] =
                              resetAlignment(@, currentAlignment)]
                      ELSE st,
                      value))

AlignValues == {<<"left">>, <<"right">>, <<"center">>}

\* <img align="left">, <img align="right">, <div>, <span align="left">
AlignBases ==
  { outerHTML(Elem("img", <<Attr("align", <<"left">>)>>, Undef, <<>>)),
    outerHTML(Elem("img", <<Attr("align", <<"right">>)>>, Undef, <<>>)),
    outerHTML(Elem("div", <<>>, Undef, <<>>)),
    outerHTML(Elem("span", <<Attr("align", <<"left">>)>>, Undef, <<>>)) }

AlignInfos ==
  { ObjectInfo(<<Type("media"), Fid("1")>> \o al \o at.has, at.attrs) :
      al \in {<<>>, <<Alignment("left")>>, <<Alignment("center")>>},
      at \in { [has |-> <<>>, attrs |-> <<>>],
               [has |-> <<Attributes>>, attrs |-> <<Attr("style", <<"float:left">>)>>],
               [has |-> <<Attributes>>, attrs |-> <<Attr("style", <<"float:right">>)>>],
               [has |-> <<Attributes>>,
                attrs |-> <<Attr("class", <<"custom">>),
                            Attr("style", <<"width:1px", "float:left">>)>>] } }

ConstructAlign == ConstructFrom(AlignInfos, AlignBases)

\* What a call of alignMedia leaves in call.ret: its arguments and what it
\* returned.
Aligned(value, toggle, applied) ==
  [value |-> value, toggle |-> toggle, applied |-> applied]

AlignMedia ==
  /\ phase = "live"
  /\ placeholder # <<>>
  /\ \E value \in AlignValues, toggle \in BOOLEAN :
       \E r \in {alignMedia(Self, value, toggle)} :
         Method("alignMedia", r, Aligned(value, toggle, r.ret))

NextAlign ==
  \/ ConstructAlign
  \/ GetPlaceholder
  \/ AlignMedia

SpecAlign == Init /\ [][NextAlign]_vars

(***************************************************************************)
(* Instances whose placeholderBase already carries generated classes and   *)
(* data attributes, as the html of an element taken from the editor does.  *)
(***************************************************************************)
\* <img class="media-element file-x media-wysiwyg-align-justify custom"
\*      data-fid="9" data-media-key="token-0" data-media-element="1">
ClassedImgElement ==
  Elem("img",
       <<Attr("class", <<"media-element", " ", "file-x", " ",
                         "media-wysiwyg-align-justify", " ", "custom">>),
         Attr("data-fid", <<"9">>), Attr("data-media-key", <<"token-", "0">>),
         Attr("data-media-element", <<"1">>)>>,
       Undef, <<>>)

ClassedBases ==
  {outerHTML(ClassedImgElement), outerHTML(WrappedImgElement), outerHTML(BareImgElement)}

ConstructClassed == ConstructFrom(DomInfos, ClassedBases)

NextPlaceholder ==
  \/ ConstructClassed
  \/ GetPlaceholder
  \/ SetPlaceholder

SpecPlaceholder == Init /\ [][NextPlaceholder]_vars

(***************************************************************************)
(* getToken() of an instance as it was constructed, and getToken() of the  *)
(* same instance after a getPlaceholder().                                 *)
(***************************************************************************)
Tokens(stage, direct, after) == [stage |-> stage, direct |-> direct, after |-> after]

tokenAfterPlaceholder(st) ==
  Let(getToken(st), LAMBDA d :
    IF d.err # NoError
    THEN [st |-> st, ret |-> Tokens("getToken", <<>>, <<>>), err |-> d.err]
    ELSE Let(getPlaceholder(st), LAMBDA g :
      IF g.err # NoError
      THEN [st |-> g.st, ret |-> Tokens("getPlaceholder", d.ret, <<>>), err |-> g.err]
      ELSE Let(getToken(g.st), LAMBDA a :
             [st |-> a.st, ret |-> Tokens("after", d.ret, a.ret), err |-> a.err])))

TokenAfterPlaceholder ==
  /\ phase = "live"
  /\ \E r \in {tokenAfterPlaceholder(Self)} : Applied("tokenAfterPlaceholder", r, r.ret)

NextToken ==
  \/ ConstructDom
  \/ TokenAfterPlaceholder

SpecToken == Init /\ [][NextToken]_vars

(***************************************************************************)
(* media.js: the drawers of the media browser.  The page is a sequence of  *)
(* tab panels (div.ui-tabs-panel), a panel the sequence of its children.   *)
(* A child is a drawer (.media.browser.drawer), a display                  *)
(* (.media.browser.display) or another element; it carries the class       *)
(* active or not and is shown or hidden.                                   *)
(***************************************************************************)
\* An element as the page brings it: without the class active, and shown.
Child(kind) == [kind |-> kind, active |-> FALSE, visible |-> TRUE]

hide(el) == [el EXCEPT !.visible = FALSE]
show(el) == [el EXCEPT !.visible = TRUE]

\* The positions of the children of a panel of one kind that a test holds of.
Children(panel, kind, Test(_)) ==
  {i \in 1..Len(panel) : panel[i].kind = kind /\ Test(panel[i])}

AnyChild(el) == TRUE
IsActive(el) == el.active

\* The first of a set of positions, as a set: children('...:first')
First(S) == {i \in S : \A j \in S : i <= j}

\* $('.media.browser.display').each(function() { $(this).hide(); })
HideDisplays(panel) ==
  [i \in 1..Len(panel) |->
     IF panel[i].kind = "display" THEN hide(panel[i]) ELSE panel[i]]

\* The function given to $('.ui-tabs-panel').each
ActivateFirst(panel) ==
  [i \in 1..Len(panel) |->
     IF i \in First(Children(panel, "drawer", AnyChild))
     THEN [panel[i] EXCEPT !.active = TRUE]
     ELSE IF i \in First(Children(panel, "display", AnyChild))
          THEN show([panel[i] EXCEPT !.active = TRUE])
          ELSE panel[i]]

\* The function given to $(document).ready, but for the binding of click
ready(page) == [p \in 1..Len(page) |-> ActivateFirst(HideDisplays(page[p]))]

clickKeepingActive(panel, this) ==
  [i \in 1..Len(panel) |->
     IF i = this THEN [panel[i] EXCEPT !.active = TRUE]
     ELSE IF i = this + 1 /\ panel[i].kind = "display"
          THEN show([panel[i] EXCEPT !.active = TRUE])
          ELSE panel[i]]

\* The function bound to click, of the drawer at position this of a panel
click(panel, this) ==
  [i \in 1..Len(panel) |->
     Let(IF i \in Children(panel, "drawer", IsActive)
         THEN [panel[i] EXCEPT !.active = FALSE]
         ELSE IF i \in Children(panel, "display", IsActive)
              THEN hide([panel[i] EXCEPT !.active = FALSE])
              ELSE panel[i],
         LAMBDA el :
           IF i = this THEN [el EXCEPT !.active = TRUE]
           ELSE IF i = this + 1 /\ el.kind = "display"
                THEN show([el EXCEPT !.active = TRUE])
                ELSE el)]

\* The children of a panel, by their kinds.
Layout(kinds) == [i \in 1..Len(kinds) |-> Child(kinds[i])]

Layouts ==
  { Layout(<<"drawer", "display", "drawer", "display">>),
    Layout(<<"drawer", "drawer", "display", "drawer">>),
    Layout(<<"drawer", "other", "display", "drawer", "display">>),
    Layout(<<"display", "drawer", "display">>),
    Layout(<<>>) }

MaxPanels == 2

Pages == UNION {[1..n -> Layouts] : n \in 1..MaxPanels}

InitBrowser ==
  /\ token = <<>>
  /\ settings = SettingsNull
  /\ key = <<>>
  /\ placeholderBase = <<>>
  /\ placeholder = <<>>
  /\ heap = [default |-> <<>>, own |-> <<>>, tmp |-> <<>>]
  /\ fidTypeMap = <<>>
  /\ attributeFields = DefaultAttributeFields
  /\ doLinkText = FALSE
  /\ phase = "page"
  /\ call = Called("", NoError, <<>>)
  /\ before = [st |-> Blank(<<>>), op |-> "", err |-> NoError]
  /\ hstr = <<>>
  /\ hres = 0
  /\ panels \in Pages
  /\ drawers = NoContext

\* What a click leaves in call.ret: the panel and the position of the drawer.
Clicked(p, this) == [panel |-> p, this |-> this]

Ready ==
  /\ phase = "page"
  /\ panels' = ready(panels)
  /\ phase' = "ready"
  /\ call' = Called("ready", NoError, <<>>)
  /\ UNCHANGED <<token, settings, key, placeholderBase, placeholder, heap, fidTypeMap,
                 attributeFields, doLinkText, before, hstr, hres, drawers>>

ClickDrawer ==
  /\ phase = "ready"
  /\ \E p \in 1..Len(panels) :
       \E this \in Children(panels[p], "drawer", AnyChild) :
         /\ panels' = [panels EXCEPT ![p] = click(@, this)]
         /\ call' = Called("click", NoError, Clicked(p, this))
  /\ UNCHANGED <<token, settings, key, placeholderBase, placeholder, heap, fidTypeMap,
                 attributeFields, doLinkText, phase, before, hstr, hres, drawers>>

NextBrowser ==
  \/ Ready
  \/ ClickDrawer

SpecBrowser == InitBrowser /\ [][NextBrowser]_vars

(***************************************************************************)
(* Drupal.behaviors.mediaDrawers.  The context holds the drawer displays   *)
(* (.drawer.display) of the tab panels of the media browser and the items  *)
(* of its drawers: an li with its link, whose href is the id of a display. *)
(* An element carries the classes active and mediaDrawers-processed or     *)
(* not; a display is shown or hidden; an li and a link have a number of    *)
(* click handlers bound.                                                   *)
(***************************************************************************)
\* A display as the page brings it, in the tab panel of the given id.
Display(panel, active) ==
  [panel |-> panel, active |-> active, visible |-> TRUE, processed |-> FALSE]

\* An li or a link as the page brings it.
Unbound == [active |-> FALSE, processed |-> FALSE, handlers |-> 0]

\* An item of a drawer in the tab panel of the given id, its link's href
\* the id of the display at position href.
Item(panel, href) == [panel |-> panel, href |-> href, li |-> Unbound, a |-> Unbound]

\* .addClass('mediaDrawers-processed').each(function() { $(this).hide(); })
\* on the displays that are not processed
HideUnprocessed(displays) ==
  [d \in 1..Len(displays) |->
     IF ~displays[d].processed
     THEN hide([displays[d] EXCEPT !.processed = TRUE]) ELSE displays[d]]

\* .addClass('mediaDrawers-processed').each(function() { $(this).show(); })
\* on the active displays that are not processed
ShowActiveUnprocessed(displays) ==
  [d \in 1..Len(displays) |->
     IF displays[d].active /\ ~displays[d].processed
     THEN show([displays[d] EXCEPT !.processed = TRUE]) ELSE displays[d]]

\* .addClass('mediaDrawers-processed').bind('click', ...) on an li or a link
\* that is not processed
BindClick(el) ==
  IF ~el.processed
  THEN [el EXCEPT !.processed = TRUE, !.handlers = @ + 1] ELSE el

\* Drupal.behaviors.mediaDrawers(context)
mediaDrawers(context) ==
  [displays |-> ShowActiveUnprocessed(HideUnprocessed(context.displays)),
   items |-> [k \in 1..Len(context.items) |->
                [context.items[k] EXCEPT !.li = BindClick(@), !.a = BindClick(@)]]]

\* The function bound to click, run on the li (onLink false) or on the link
\* of the item at position this.
drawerClick(context, this, onLink) ==
  [displays |->
     [d \in 1..Len(context.displays) |->
        Let(IF context.displays[d].panel = context.items[this].panel
               /\ context.displays[d].active
            THEN hide([context.displays[d] EXCEPT !.active = FALSE])
            ELSE context.displays[d],
            LAMBDA el :
              IF d = context.items[this].href
              THEN show([el EXCEPT !.active = TRUE]) ELSE el)],
   items |->
     [k \in 1..Len(context.items) |->
        Let(IF context.items[k].panel = context.items[this].panel
            THEN [context.items[k] EXCEPT !.li.active = FALSE]
            ELSE context.items[k],
            LAMBDA item :
              IF k # this THEN item
              ELSE IF onLink THEN [item EXCEPT !.a.active = TRUE]
                   ELSE [item EXCEPT !.li.active = TRUE])]]

\* A click on the link of an item runs the handlers of the link and then,
\* as the event bubbles, those of its li; a click on the li runs the
\* handlers of the li.  The handlers of one element do the same, so that
\* running them once stands for running each of them.
ClickOn(context, this, onLink) ==
  Let(IF onLink /\ context.items[this].a.handlers > 0
      THEN drawerClick(context, this, TRUE) ELSE context,
      LAMBDA c :
        IF c.items[this].li.handlers > 0 THEN drawerClick(c, this, FALSE) ELSE c)

\* Two tab panels, of two displays and of one, the display at position k
\* that of the item at position k; the page marks at most one display of a
\* panel active.
DrawerContexts ==
  { [displays |-> <<Display("p1", a = 1), Display("p1", a = 2), Display("p2", b = 1)>>,
     items |-> <<Item("p1", 1), Item("p1", 2), Item("p2", 3)>>] :
      a \in 0..2, b \in 0..1 }

InitDrawers ==
  /\ token = <<>>
  /\ settings = SettingsNull
  /\ key = <<>>
  /\ placeholderBase = <<>>
  /\ placeholder = <<>>
  /\ heap = [default |-> <<>>, own |-> <<>>, tmp |-> <<>>]
  /\ fidTypeMap = <<>>
  /\ attributeFields = DefaultAttributeFields
  /\ doLinkText = FALSE
  /\ phase = "page"
  /\ call = Called("", NoError, <<>>)
  /\ before = [st |-> Blank(<<>>), op |-> "", err |-> NoError]
  /\ hstr = <<>>
  /\ hres = 0
  /\ panels = <<>>
  /\ drawers \in DrawerContexts

\* What a run of the behaviour leaves in call.ret: the context as it found
\* it, and whether it had run on it before.
Ran(context, again) == [found |-> context, again |-> again]

MediaDrawers ==
  /\ phase \in {"page", "attached"}
  /\ drawers' = mediaDrawers(drawers)
  /\ phase' = "attached"
  /\ call' = Called("mediaDrawers", NoError, Ran(drawers, phase = "attached"))
  /\ UNCHANGED <<token, settings, key, placeholderBase, placeholder, heap, fidTypeMap,
                 attributeFields, doLinkText, before, hstr, hres, panels>>

ClickItem ==
  /\ phase = "attached"
  /\ \E this \in 1..Len(drawers.items), onLink \in BOOLEAN :
       /\ drawers' = ClickOn(drawers, this, onLink)
       /\ call' = Called("click", NoError, Clicked(this, onLink))
  /\ UNCHANGED <<token, settings, key, placeholderBase, placeholder, heap, fidTypeMap,
                 attributeFields, doLinkText, phase, before, hstr, hres, panels>>

NextDrawers ==
  \/ MediaDrawers
  \/ ClickItem

SpecDrawers == InitDrawers /\ [][NextDrawers]_vars

(***************************************************************************)
(* The properties.                                                         *)
(***************************************************************************)
Mask31 == 2147483647

\* (31 * h + c) mod 2^31, for 0 <= h < 2^31 and a char code c
ReferenceStep(h, c) ==
  LET upper == ((31 * (h \div Two16)) % Two15) * Two16
      lower == 31 * (h % Two16) + c
  IN  IF upper > Mask31 - lower THEN upper - (Mask31 - lower) - 1 ELSE upper + lower

\* The reference hash: h := (31 * h + charCode) mod 2^31 over the chars of
\* str from the left, starting from 0.
RECURSIVE ReferenceHash(_)
ReferenceHash(str) ==
  IF Len(str) = 0 THEN 0
  ELSE ReferenceStep(ReferenceHash(SubSeq(str, 1, Len(str) - 1)), str[Len(str)])

\* C6: hashCode(s) is the reference 31 bit rolling hash of s: 0 for the empty
\* string, always within 0..0x7fffffff, and the same as the reference also
\* where hash << 5 wraps around 32 bits.
C6_HashIsReference ==
  phase = "hashed" =>
    /\ hres = ReferenceHash(hstr)
    /\ hres \in 0..Mask31
    /\ (hstr = <<>> => hres = 0)

\* A string was hashed in whose loop hash << 5 wrapped around: the hash of
\* one of its proper prefixes needs more than 26 bits.
C6_ShiftWrapped ==
  /\ phase = "hashed"
  /\ \E i \in 1..(Len(hstr) - 1) : ReferenceHash(SubSeq(hstr, 1, i)) >= 2^26

\* C1: the key is empty, or it is 'token-' + hashCode(token) of the current,
\* non-empty token.
C1_KeyIsOfToken ==
  key = <<>> \/ (token # <<>> /\ key = createKey(token))

\* getKey() has made a key anew after setPlaceholder had reset an earlier one.
C1_KeyMadeAnew ==
  /\ call.op = "getKey" /\ call.err = NoError /\ key # <<>>
  /\ before.op = "setPlaceholder" /\ before.err = NoError

\* The token that the settings of the instance make.
TokenOfSettings ==
  <<"[", "[">> \o StringifyPristine(prepareSettingsForToken(Self).ret) \o <<"]", "]">>

\* C2: when setPlaceholder has completed, token and key are empty; and the
\* getToken() or getKey() that follows it makes the token of the settings
\* (and the key of that token) anew.
C2_SetPlaceholderResets ==
  /\ (call.op = "setPlaceholder" /\ call.err = NoError) => (token = <<>> /\ key = <<>>)
  /\ (/\ before.op = "setPlaceholder" /\ before.err = NoError
      /\ call.op \in {"getToken", "getKey"} /\ call.err = NoError)
     => /\ token = TokenOfSettings
        /\ (call.op = "getToken" => call.ret = token)
        /\ (call.op = "getKey" => call.ret = createKey(token) /\ key = call.ret)

\* setPlaceholder has completed on an instance that had a token and a key.
C2_ResetOfCached ==
  /\ call.op = "setPlaceholder" /\ call.err = NoError
  /\ before.st.token # <<>> /\ before.st.key # <<>>
  /\ token = <<>> /\ key = <<>>

\* The required properties of the schema.
RequiredNames == {tokenSchema[i].name : i \in {j \in 1..Len(tokenSchema) : tokenSchema[j].required}}

\* C3: settings that are not null have the type 'media' and every required
\* property of the schema, also after a getSettings() that threw.
C3_SettingsAreValid ==
  ~settings.null =>
    /\ Get(settings.o, "type") = Str(<<"media">>)
    /\ \A n \in RequiredNames : Has(settings.o, n)

WrongType == <<"Token not of type 'media'.">>

\* The first required property of the schema that o lacks, "" when it has all.
FirstMissing(o) ==
  LET lacks == SelectSeq(tokenSchema, LAMBDA p : p.required /\ ~Truthy(Get(o, p.name)))
  IN  IF lacks = <<>> THEN "" ELSE lacks[1].name

\* The last call verified settings: the constructor was given an object, or
\* getSettings() parsed the token.
Verified ==
  \/ call.op = "new" /\ ~before.st.settings.null
  \/ call.op = "getSettings" /\ before.st.settings.null /\ ~settings.null

\* The object that was verified.  (A getSettings() that throws leaves it in
\* settings.)
VerifiedObject == IF call.op = "new" THEN before.st.settings.o ELSE settings.o

IsCopyOfDefault(now, d) ==
  IF d.t = "obj"
  THEN now.t = "obj" /\ now.s # d.s /\ Cell(heap, now) = Cell(heap, d)
  ELSE now = d

\* now is the value was, untouched.
IsUnchanged(now, was) ==
  /\ now = was
  /\ was.t = "obj" => Cell(heap, now) = Cell(before.st.heap, was)

\* The properties of the verified object that are not of the schema are as
\* they were, and so is the schema default.
C5_RestUnchanged ==
  /\ \A i \in 1..Len(before.st.settings.o) :
       before.st.settings.o[i][1] \notin SchemaNames
       => Get(settings.o, before.st.settings.o[i][1]) = before.st.settings.o[i][2]
  /\ heap.default = before.st.heap.default

\* C5 as claimed: after verifySettings has succeeded, an optional property
\* that was absent holds a copy of the default, and a property that was
\* present, whatever its value, is unchanged.
C5_PresentUnchanged ==
  (call.op = "new" /\ call.err = NoError /\ ~before.st.settings.null) =>
    /\ \A i \in 1..Len(tokenSchema) :
         IF Has(before.st.settings.o, tokenSchema[i].name)
         THEN IsUnchanged(Get(settings.o, tokenSchema[i].name),
                          Get(before.st.settings.o, tokenSchema[i].name))
         ELSE IsCopyOfDefault(Get(settings.o, tokenSchema[i].name),
                              tokenSchema[i].default)
    /\ C5_RestUnchanged

\* C5 as amended: after verifySettings has succeeded, an optional property
\* that was absent or falsy ('', 0, false, null) holds a copy of the default
\* that shares nothing with it, and every other property is unchanged.
C5_TruthyUnchanged ==
  (call.op = "new" /\ call.err = NoError /\ ~before.st.settings.null) =>
    /\ \A i \in 1..Len(tokenSchema) :
         IF Truthy(Get(before.st.settings.o, tokenSchema[i].name))
         THEN IsUnchanged(Get(settings.o, tokenSchema[i].name),
                          Get(before.st.settings.o, tokenSchema[i].name))
         ELSE IsCopyOfDefault(Get(settings.o, tokenSchema[i].name),
                              tokenSchema[i].default)
    /\ C5_RestUnchanged

\* verifySettings has succeeded on an object without attributes, which now
\* has a copy of the default, and with a view mode and a field, which it kept.
C5_DefaultCopied ==
  /\ call.op = "new" /\ call.err = NoError /\ ~before.st.settings.null
  /\ ~Has(before.st.settings.o, "attributes")
  /\ Get(settings.o, "attributes") = Obj("own")
  /\ Get(before.st.settings.o, "view_mode") = Str(<<"full">>)
  /\ Get(settings.o, "view_mode") = Str(<<"full">>)
  /\ Has(before.st.settings.o, "field_alt[und][0][value]")

PropertyNames(o) == {o[i][1] : i \in 1..Len(o)}

PrepareReturned == call.op = "prepareSettingsForToken" /\ call.err = NoError

\* The properties of the settings that belong to the overridable fields of the
\* file type of the instance.
C7_FieldProperties ==
  LET fields == getOverridableFields(fidTypeMap, Get(settings.o, "fid"))
  IN  {p \in PropertyNames(settings.o) :
         \E i \in 1..Len(fields) : FieldOfProperty(p) = fields[i]}

\* The classes that are generated while editing or by the input filter.
C7_Generated ==
  {"media-element", "file-default", "file-media-large", "file-full", "file-x",
   "media-wysiwyg-align-left", "media-wysiwyg-align-right", "media-wysiwyg-align-center"}

\* The attributes of the prepared object: none is mapped to a field, none is
\* internal, none of the classes is generated, and the object has an
\* attributes property if and only if there is an attribute.
C7_AttributesCleaned ==
  /\ \A i \in 1..Len(attributeFields) : ~Has(call.ret.attrs, attributeFields[i][1])
  /\ \A a \in {"data-fid", "data-media-element", "data-media-key"} : ~Has(call.ret.attrs, a)
  /\ \A j \in 1..Len(Get(call.ret.attrs, "class").s) :
       Get(call.ret.attrs, "class").s[j] \notin C7_Generated
  /\ Has(call.ret.o, "attributes") <=> call.ret.attrs # <<>>

\* C7 as claimed: the prepared object has exactly the schema properties
\* present in settings and the properties of the overridable fields; its
\* attributes have no mapped or internal attribute and no generated class;
\* class is absent when nothing remains, and attributes when empty.
C7_PresentPrepared ==
  PrepareReturned =>
    /\ PropertyNames(call.ret.o) \ {"attributes"} =
         ({n \in SchemaNames : Has(settings.o, n)} \cup C7_FieldProperties) \ {"attributes"}
    /\ C7_AttributesCleaned
    /\ Has(call.ret.attrs, "class") => Get(call.ret.attrs, "class").s # <<>>

\* The items of the class of the settings that are not generated, an empty
\* item among them.
C7_ClassesKept ==
  LET attributes == Get(settings.o, "attributes")
      class == IF attributes.t = "obj" THEN Get(Cell(heap, attributes), "class") ELSE Undef
  IN  IF Truthy(class)
      THEN SelectSeq(Split(class.s),
                     LAMBDA c : c = <<>> \/ Head(c) \notin C7_Generated)
      ELSE <<>>

\* C7 as amended: the prepared object has exactly the schema properties of
\* settings whose value is not falsy and the properties of the overridable
\* fields, with the values of settings; its attributes have no mapped or
\* internal attribute and no generated class; class is the items that remain
\* of the space separated list, an empty item remaining too, and is absent
\* when no item remains; attributes is absent when empty.
C7_TruthyPrepared ==
  PrepareReturned =>
    /\ PropertyNames(call.ret.o) \ {"attributes"} =
         ({n \in SchemaNames : Truthy(Get(settings.o, n))} \cup C7_FieldProperties)
         \ {"attributes"}
    /\ \A n \in PropertyNames(call.ret.o) \ {"attributes"} :
         Get(call.ret.o, n) = Get(settings.o, n)
    /\ C7_AttributesCleaned
    /\ Has(call.ret.attrs, "class") <=> C7_ClassesKept # <<>>
    /\ Has(call.ret.attrs, "class")
         => Get(call.ret.attrs, "class") = Str(Join(C7_ClassesKept))

\* Settings with the class 'media-element custom file-x', an alt attribute
\* and an alt field were prepared: the class is 'custom', and the field is
\* there.
C7_CustomClassKept ==
  /\ PrepareReturned
  /\ Get(Cell(heap, Get(settings.o, "attributes")), "class")
       = Str(<<"media-element", " ", "custom", " ", "file-x">>)
  /\ call.ret.attrs = <<Attr("class", <<"custom">>)>>
  /\ Has(call.ret.o, "field_alt[und][0][value]")
  /\ Has(call.ret.o, "attributes")

\* The value now of a settings is the value was of another: the same scalar,
\* or an object of the same properties.
SameValue(now, nowAttrs, was, wasAttrs) ==
  IF was.t = "obj" THEN now.t = "obj" /\ nowAttrs = wasAttrs ELSE now = was

\* C8: the token that getToken() makes of valid settings S gives a new
\* instance whose getSettings() succeeds with settings equal to S on every
\* property of the schema, and those settings make the same token again.
C8_TokenRoundTrips ==
  (/\ call.op = "tokenRoundTrip" /\ ~before.st.settings.null
   /\ Get(before.st.settings.o, "type") = Str(<<"media">>)
   /\ FirstMissing(before.st.settings.o) = "")
  => /\ call.err = NoError
     /\ call.ret.stage = "again"
     /\ \A n \in SchemaNames :
          SameValue(Get(call.ret.o, n), call.ret.attrs,
                    Get(before.st.settings.o, n), before.st.heap.own)
     /\ call.ret.again = call.ret.token

\* The element of a placeholder that carries the attributes of the media: the
\* placeholder itself, or the one it wraps.
MediaElement(placeholders) ==
  IF placeholders[1].child # <<>> THEN placeholders[1].child[1] ELSE placeholders[1]

\* C9: the element that getPlaceholder() makes, attached with setPlaceholder
\* and made again of the placeholder base and the settings, has the same
\* data-fid, the same data-media-key and the same set of classes.
C9_DomRoundTrips ==
  (call.op = "domRoundTrip" /\ call.ret.stage # "getPlaceholder") =>
    /\ call.err = NoError
    /\ call.ret.stage = "rebuild"
    /\ \A a \in {"data-fid", "data-media-key"} :
         Get(MediaElement(call.ret.second).attrs, a)
           = Get(MediaElement(call.ret.first).attrs, a)
    /\ LET first == ClassItems(MediaElement(call.ret.first))
           second == ClassItems(MediaElement(call.ret.second))
       IN  {first[i] : i \in 1..Len(first)} = {second[i] : i \in 1..Len(second)}

\* C10: syncAttributesToFields() and then syncFieldsToAttributes() leave the
\* attributes of the settings as they were before the two calls.
C10_ReconcileIsFixedPoint ==
  (call.op = "reconcile" /\ ~before.st.settings.null
   /\ Get(before.st.settings.o, "attributes").t = "obj")
  => /\ call.err = NoError
     /\ Get(settings.o, "attributes").t = "obj"
     /\ Cell(heap, Get(settings.o, "attributes"))
          = Cell(before.st.heap, Get(before.st.settings.o, "attributes"))

\* The alignment classes of an element.
AlignClasses(el) ==
  {ClassItems(el)[i] : i \in {j \in 1..Len(ClassItems(el)) :
                                IsAnyAlignClass(ClassItems(el)[j])}}

\* C11: on an element with the class media-element, alignMedia returns true
\* exactly when getMediaAlignment reports value after the call; a toggle of
\* the current alignment clears it and returns false; a switch to another
\* value leaves value as the only alignment and returns true.
C11_AppliedIsReported ==
  (/\ call.op = "alignMedia" /\ call.err = NoError
   /\ hasClass(before.st.placeholder[1], <<"media-element">>))
  => /\ call.ret.applied <=> (getMediaAlignment(placeholder[1]) = call.ret.value)
     /\ (call.ret.toggle /\ getMediaAlignment(before.st.placeholder[1]) = call.ret.value)
        => (~call.ret.applied /\ getMediaAlignment(placeholder[1]) = <<>>)
     /\ getMediaAlignment(before.st.placeholder[1]) # call.ret.value
        => /\ call.ret.applied
           /\ getMediaAlignment(placeholder[1]) = call.ret.value
           /\ AlignClasses(placeholder[1]) = {AlignmentClass(call.ret.value)}

\* The alignment that the alignment class of an element names, <<>> when it
\* carries none.
ClassAlignment(el) ==
  IF AlignClasses(el) = {} THEN <<>>
  ELSE AlignmentOfClass(CHOOSE c \in AlignClasses(el) : TRUE)

\* C16: after a call of alignMedia on the media element of an instance, the
\* alignment of the instance's settings is the one its media-wysiwyg-align-*
\* class names, and is unset when the element carries no such class.
C16_SettingsFollowClass ==
  (/\ call.op = "alignMedia" /\ call.err = NoError
   /\ hasClass(before.st.placeholder[1], <<"media-element">>)
   /\ getMediaInstanceFromElement(Self, placeholder[1]))
  => IF AlignClasses(placeholder[1]) = {}
     THEN ~Truthy(Get(settings.o, "alignment"))
     ELSE Get(settings.o, "alignment") = Str(ClassAlignment(placeholder[1]))

\* The classes of an element that a test holds of.
ClassesThat(el, Test(_)) ==
  {i \in 1..Len(ClassItems(el)) : Test(ClassItems(el)[i])}

\* What the placeholder of an instance carries of its settings and its key.
CarriesSettings(st, k) ==
  /\ st.placeholder # <<>>
  /\ Get(st.placeholder[1].attrs, "data-fid") = Str(Get(st.settings.o, "fid").s)
  /\ Get(st.placeholder[1].attrs, "data-media-key") = Str(k)
  /\ hasClass(st.placeholder[1], <<"media-element">>)
  /\ Cardinality(ClassesThat(st.placeholder[1], IsFileClass)) = 1
  /\ hasClass(st.placeholder[1], ViewModeClass(Get(st.settings.o, "view_mode").s))
  /\ IF Truthy(Get(st.settings.o, "alignment"))
     THEN /\ Cardinality(ClassesThat(st.placeholder[1], IsAnyAlignClass)) = 1
          /\ hasClass(st.placeholder[1],
                      AlignmentClass(Get(st.settings.o, "alignment").s))
     ELSE ClassesThat(st.placeholder[1], IsAnyAlignClass) = {}

\* C12: whenever getPlaceholder() returns, the placeholder carries data-fid
\* of settings.fid, data-media-key of getKey(), the class media-element,
\* exactly one file-* class, that of the view mode, and an alignment class if
\* and only if settings.alignment is set, then exactly that one.
C12_PlaceholderCarriesSettings ==
  (call.op = "getPlaceholder" /\ call.err = NoError)
  => CarriesSettings(Self, getKey(Self).ret)

\* C12, amended: whenever a getPlaceholder() that found no placeholder on the
\* instance returns, the placeholder, which it built of the placeholderBase,
\* carries data-fid of settings.fid, data-media-key of getKey(), the class
\* media-element, exactly one file-* class, that of the view mode, and an
\* alignment class if and only if settings.alignment is set, then exactly
\* that one.
C12_BuiltPlaceholderCarriesSettings ==
  (call.op = "getPlaceholder" /\ call.err = NoError /\ before.st.placeholder = <<>>)
  => CarriesSettings(Self, getKey(Self).ret)

\* A getPlaceholder() built the placeholder of a base that carried a file-*
\* class, another alignment class and data attributes of its own.
C12_BuiltOfClassedBase ==
  /\ call.op = "getPlaceholder" /\ call.err = NoError
  /\ before.st.placeholder = <<>>
  /\ placeholderBase = outerHTML(ClassedImgElement)
  /\ Truthy(Get(settings.o, "alignment"))
  /\ CarriesSettings(Self, key)

\* C15: of an instance constructed from a settings object, which has no
\* token yet, getToken() after a getPlaceholder() returns the token that
\* getToken() returns without it.
C15_TokenWhateverPlaceholder ==
  (/\ call.op = "tokenAfterPlaceholder" /\ call.err = NoError
   /\ before.st.token = <<>> /\ before.st.placeholder = <<>>)
  => call.ret.after = call.ret.direct

\* C13: after the page-load initialisation and any clicks on drawers, each
\* tab panel has at most one active drawer and at most one active display, a
\* display is visible exactly when it is active, and after a click the
\* active drawer of the panel is the clicked one and its active display is
\* the display that immediately follows that drawer.
C13_OneActiveDrawerAndDisplay ==
  phase = "ready"
  => /\ \A p \in 1..Len(panels) :
          /\ Cardinality(Children(panels[p], "drawer", IsActive)) <= 1
          /\ Cardinality(Children(panels[p], "display", IsActive)) <= 1
          /\ \A i \in Children(panels[p], "display", AnyChild) :
               panels[p][i].visible <=> panels[p][i].active
     /\ call.op = "click"
        => /\ Children(panels[call.ret.panel], "drawer", IsActive) = {call.ret.this}
           /\ Children(panels[call.ret.panel], "display", IsActive)
                = Children(panels[call.ret.panel], "display", AnyChild)
                    \cap {call.ret.this + 1}

\* A click on a drawer that was not the active one has moved the class
\* active to it and to the display after it, and has hidden the display
\* that was active.
C13_ClickMovedActive ==
  /\ phase = "ready" /\ call.op = "click"
  /\ call.ret.this > 2
  /\ Children(panels[call.ret.panel], "drawer", IsActive) = {call.ret.this}
  /\ Children(panels[call.ret.panel], "display", IsActive) = {call.ret.this + 1}
  /\ \E i \in Children(panels[call.ret.panel], "display", AnyChild) :
       i < call.ret.this /\ ~panels[call.ret.panel][i].visible

\* The numbers of click handlers bound to the items of a context.
Handlers(context) ==
  [k \in 1..Len(context.items) |->
     <<context.items[k].li.handlers, context.items[k].a.handlers>>]

\* Which displays of a context are shown.
Visibility(context) ==
  [d \in 1..Len(context.displays) |-> context.displays[d].visible]

\* C14: after Drupal.behaviors.mediaDrawers has run on a context, every
\* drawer display with the class active is shown and every one without it is
\* hidden, and a run on a context it has run on before changes neither the
\* visibility of a display nor the number of click handlers of an item.
C14_ActiveDisplaysShown ==
  call.op = "mediaDrawers"
  => /\ \A d \in 1..Len(drawers.displays) :
          drawers.displays[d].visible <=> drawers.displays[d].active
     /\ call.ret.again
        => /\ Visibility(drawers) = Visibility(call.ret.found)
           /\ Handlers(drawers) = Handlers(call.ret.found)

=============================================================================
